---- MODULE Spec2Model ----
(***************************************************************************)
(* Model of the authentication core of top-blog (src/api/auth.rs):         *)
(* the signed session and action tokens, the permission bitmask, the       *)
(* request extractors and the account workflows that use them.             *)
(*                                                                         *)
(* A JWT is modelled by what jsonwebtoken's encode/decode do with it: a    *)
(* record of the signing key and the serialized claims.  decode::<T>       *)
(* succeeds iff the text is a JWT, the key is the process secret, every    *)
(* field of T is among the claims (serde) and exp >= now - leeway.         *)
(* Timestamps are unix seconds, as chrono's timestamp() returns them.      *)
(***************************************************************************)
EXTENDS Integers, Sequences, FiniteSets, TLC

VARIABLES
    users,    \* the users table: a sequence of rows, row i has id i
    mail,     \* what the email collaborator was asked to send
    now,      \* the clock, Utc::now().timestamp()
    resp,     \* the response of the last request handled
    req,      \* the last request seen by an extractor: header, cookie, CsrfToken
    admin,    \* dotenv ADMIN: the configured super-admin name, "" when unset
    ext,      \* what the extractor made of req
    perm,     \* the permission check last evaluated: [p, m, user, checkuser, checkcan]
    jobs      \* what each worker of the Dba pool holds between its lookup and its write

vars == <<users, mail, now, resp, req, admin, ext, perm, jobs>>

----------------------------------------------------------------------------
(* Bounds of the model *)

StartTime == 1600000000
PermBits == 8
MaxUsers == 2
MaxMail == 2
NumWorkers == 2

----------------------------------------------------------------------------
(* Program constants *)

LIMIT_PERMIT == 1
BASIC_PERMIT == 2
EIDT_PERMIT == 4
MOD_PERMIT == 16
ADMIN_PERMIT == 128

\* Validation::default() of jsonwebtoken 7: leeway 0, validate_exp
Leeway == 0

\* Duration::hours(24 * 5), in seconds
SessionTtl == 24 * 5 * 3600
\* generate_token(.., 60 * 2) and generate_token(.., 60 * 24 * 2), in minutes
ResetTtl == 60 * 2
ConfirmTtl == 60 * 24 * 2

\* get_secret(): SECRET_KEY of the environment, or the fallback
Secret == "SECRET_KEY"
OtherKey == "not-the-secret"

----------------------------------------------------------------------------
(* Permission bitmask: i16 values as bit patterns *)

RECURSIVE BitAnd(_, _)
BitAnd(a, b) ==
    IF a = 0 \/ b = 0 THEN 0
    ELSE (IF a % 2 = 1 /\ b % 2 = 1 THEN 1 ELSE 0) + 2 * BitAnd(a \div 2, b \div 2)

RECURSIVE BitOr(_, _)
BitOr(a, b) ==
    IF a = 0 THEN b
    ELSE IF b = 0 THEN a
    ELSE (IF a % 2 = 1 \/ b % 2 = 1 THEN 1 ELSE 0) + 2 * BitOr(a \div 2, b \div 2)

RECURSIVE Pow2(_)
Pow2(n) == IF n = 0 THEN 1 ELSE 2 * Pow2(n - 1)

\* bit i of x
Bit(x, i) == (x \div Pow2(i)) % 2

\* a faulty variant of can: any requested bit suffices
UserCanAny(permission, m) == m = 0 \/ BitAnd(permission, m) # 0
\* User::can
UserCan(permission, m) == BitAnd(permission, m) = m

\* a faulty variant of can: the permission is compared as a number
CheckUserCanAtLeast(permission, m) == permission >= m
\* CheckUser::can
CheckUserCan(permission, m) == BitAnd(permission, m) = m

\* CheckCan::can
CheckCanCan(permission, m) == BitAnd(permission, m) = m

----------------------------------------------------------------------------
(* jsonwebtoken: encode and decode::<T> *)

\* what is not a JWT at all: the empty string, a failed base64 decode
JunkToken == [fmt |-> "junk", key |-> "", claims |-> [exp |-> 0]]
\* a header value that is not visible ASCII: HeaderValue::to_str fails on it
BinToken == [fmt |-> "bin", key |-> "", claims |-> [exp |-> 0]]

\* the fields serde needs to build each claims struct
ClaimsFields == {"iss", "sub", "iat", "exp", "uid", "uname", "permission"}
TokClaimFields == {"exp", "uname", "email"}

\* encode(&Header::default(), &claims, &EncodingKey::from_secret(key))
JwtEncode(claims, key) == [fmt |-> "jwt", key |-> key, claims |-> claims]

\* decode::<T>(token, &DecodingKey::from_secret(key), &Validation::default()) is Ok
JwtDecodeOk(token, key, fields, t) ==
    /\ token.fmt = "jwt"
    /\ token.key = key
    /\ fields \subseteq DOMAIN token.claims
    /\ token.claims.exp >= t - Leeway

----------------------------------------------------------------------------
(* Session tokens *)

\* BuildUser::default().into(): the empty view
DefaultCheckUser ==
    [id |-> 0, uname |-> "", avatar |-> "", email |-> "", intro |-> "",
     location |-> "", nickname |-> "", permission |-> 0, link |-> "",
     auth_from |-> "", email_confirmed |-> FALSE]

\* Claims::new: iat and exp come from two reads of the clock, t1 <= t2
ClaimsNew(uid, uname, permit, t1, t2) ==
    [iss |-> "toplog", sub |-> "auth", iat |-> t1, exp |-> t2 + SessionTtl,
     uid |-> uid, uname |-> uname, permission |-> permit]

\* a faulty variant of the conversion: the permission is not carried over
CheckUserFromClaimsNoPermit(c) ==
    [DefaultCheckUser EXCEPT !.id = c.uid, !.uname = c.uname]
\* From<Claims> for CheckUser (join_at, the time of the conversion, is left out)
CheckUserFromClaims(c) ==
    [DefaultCheckUser EXCEPT !.id = c.uid, !.uname = c.uname,
                             !.permission = c.permission]

\* a faulty variant of encode_token: the id of the account is not put in the claims
EncodeTokenAnon(data, t1, t2) ==
    JwtEncode(ClaimsNew(0, data.uname, data.permission, t1, t2), Secret)
\* encode_token
EncodeToken(data, t1, t2) ==
    JwtEncode(ClaimsNew(data.id, data.uname, data.permission, t1, t2), Secret)

Unauthorized == [ok |-> FALSE, err |-> "Unauthorized", user |-> DefaultCheckUser]

\* decode_token
DecodeToken(token, t) ==
    IF JwtDecodeOk(token, Secret, ClaimsFields, t)
    THEN [ok |-> TRUE, err |-> "", user |-> CheckUserFromClaims(token.claims)]
    ELSE Unauthorized

----------------------------------------------------------------------------
(* Action tokens *)

\* the claim verify_token returns when decoding fails
SentinelClaim == [exp |-> 0, uname |-> "", email |-> ""]

\* a faulty variant of generate_token: the lifetime is taken as seconds
GenerateTokenSeconds(uname, email, expiration, t) ==
    JwtEncode([exp |-> t + expiration, uname |-> uname, email |-> email], Secret)
\* generate_token: expiration is in minutes
GenerateToken(uname, email, expiration, t) ==
    JwtEncode([exp |-> t + expiration * 60, uname |-> uname, email |-> email], Secret)

\* a faulty variant of verify_token: the claims of a token that failed to decode are kept
VerifyTokenKeepsClaims(token, t) ==
    IF token.fmt = "jwt" /\ TokClaimFields \subseteq DOMAIN token.claims
    THEN [exp |-> token.claims.exp, uname |-> token.claims.uname,
          email |-> token.claims.email]
    ELSE SentinelClaim
\* a faulty variant of verify_token: the token is decoded without asking for
\* the email field
VerifyTokenAnyClaims(token, t) ==
    IF JwtDecodeOk(token, Secret, {"exp", "uname"}, t)
    THEN [exp |-> token.claims.exp, uname |-> token.claims.uname,
          email |-> IF "email" \in DOMAIN token.claims THEN token.claims.email ELSE ""]
    ELSE SentinelClaim
\* verify_token
VerifyToken(token, t) ==
    IF JwtDecodeOk(token, Secret, TokClaimFields, t)
    THEN [exp |-> token.claims.exp, uname |-> token.claims.uname,
          email |-> token.claims.email]
    ELSE SentinelClaim

----------------------------------------------------------------------------
(* Request extractors *)

\* Option<token>: an absent header or cookie, and a present one
None == [some |-> FALSE, tok |-> JunkToken]
Some(t) == [some |-> TRUE, tok |-> t]

\* HeaderValue::to_str is Ok
ToStrOk(h) == h.tok.fmt # "bin"

\* CheckCan::default()
DefaultCheckCan == [uname |-> "", permission |-> 0]
\* From<CheckUser> for CheckCan
CheckCanFromUser(user) == [uname |-> user.uname, permission |-> user.permission]

NoExt == [by |-> "", ok |-> FALSE, err |-> "", id |-> 0, uname |-> "", permission |-> 0]
ExtOk(by, id, uname, permission) ==
    [by |-> by, ok |-> TRUE, err |-> "", id |-> id, uname |-> uname,
     permission |-> permission]
ExtErr(by, err) == [NoExt EXCEPT !.by = by, !.err = err]

\* a faulty variant of the Strict extractor: the cookie is not tried
CheckUserHeaderOnly(r, t) ==
    LET h == DecodeToken(r.hdr.tok, t) IN
    IF r.hdr.some /\ ToStrOk(r.hdr) /\ h.ok
    THEN ExtOk("CheckUser", h.user.id, h.user.uname, h.user.permission)
    ELSE ExtErr("CheckUser", "Unauthorized")
\* a faulty variant of the Strict extractor: a session is refused once the
\* stored password of its account is no longer the one set at signup
CheckUserRevoking(r, t) ==
    LET h == DecodeToken(r.hdr.tok, t)
        c == DecodeToken(r.cki.tok, t)
        kept(u) == \E i \in 1 .. Len(users) :
                      users[i].uname = u /\ users[i].psw_hash = [bcrypt |-> "Passw0rd1"]
    IN  IF r.hdr.some /\ ToStrOk(r.hdr) /\ h.ok /\ kept(h.user.uname)
        THEN ExtOk("CheckUser", h.user.id, h.user.uname, h.user.permission)
        ELSE IF r.cki.some /\ c.ok /\ kept(c.user.uname)
        THEN ExtOk("CheckUser", c.user.id, c.user.uname, c.user.permission)
        ELSE ExtErr("CheckUser", "Unauthorized")
\* FromRequest for CheckUser
CheckUserFromRequest(r, t) ==
    LET h == DecodeToken(r.hdr.tok, t)
        c == DecodeToken(r.cki.tok, t)
    IN  IF r.hdr.some /\ ToStrOk(r.hdr) /\ h.ok
        THEN ExtOk("CheckUser", h.user.id, h.user.uname, h.user.permission)
        ELSE IF r.cki.some /\ c.ok
        THEN ExtOk("CheckUser", c.user.id, c.user.uname, c.user.permission)
        ELSE ExtErr("CheckUser", "Unauthorized")

\* FromRequest for CheckCan: u starts as the default, the header's identity is
\* assigned to it, then the cookie's; the check is made on whatever u holds
CheckCanFromRequest(r, adm, t) ==
    LET h  == DecodeToken(r.hdr.tok, t)
        c  == DecodeToken(r.cki.tok, t)
        u0 == DefaultCheckCan
        u1 == IF r.hdr.some /\ ToStrOk(r.hdr) /\ h.ok THEN CheckCanFromUser(h.user) ELSE u0
        u  == IF r.cki.some /\ c.ok THEN CheckCanFromUser(c.user) ELSE u1
        check_permission == u.uname = adm \/ CheckCanCan(u.permission, EIDT_PERMIT)
    IN  IF check_permission
        THEN ExtOk("CheckCan", 0, u.uname, u.permission)
        ELSE ExtErr("CheckCan", "Unauthorized")

\* FromRequest for CheckAuth: only the cookie is read
CheckAuthFromRequest(r, t) ==
    LET c == DecodeToken(r.cki.tok, t) IN
    IF r.cki.some /\ c.ok
    THEN ExtOk("CheckAuth", 0, c.user.uname, 0)
    ELSE ExtOk("CheckAuth", 0, "", 0)

\* a faulty variant of the CSRF extractor: the signature on the token is not
\* checked
CheckCsrfUnsigned(r, t) ==
    LET tc == VerifyTokenKeepsClaims(r.csrf.tok, t) IN
    IF r.csrf.some /\ ToStrOk(r.csrf) /\ t <= tc.exp
    THEN ExtOk("CheckCsrf", 0, "", 0)
    ELSE ExtErr("CheckCsrf", "BadRequest")
\* FromRequest for CheckCsrf
CheckCsrfFromRequest(r, t) ==
    LET tc == VerifyToken(r.csrf.tok, t) IN
    IF r.csrf.some /\ ToStrOk(r.csrf) /\ t <= tc.exp
    THEN ExtOk("CheckCsrf", 0, "", 0)
    ELSE ExtErr("CheckCsrf", "BadRequest")

----------------------------------------------------------------------------
(* Values the variables hold before anything happened *)

\* the last response; was is the email_confirmed the account had before a
\* confirmation that succeeded, exp the exp of an AuthMsg (days), dup the email
\* an update asked for and found with another account
NoResp ==
    [op |-> "", ok |-> FALSE, status |-> 0, msg |-> "", uname |-> "",
     tok |-> JunkToken, via |-> {}, claim |-> SentinelClaim,
     user |-> DefaultCheckUser, sent |-> FALSE, omg |-> FALSE, was |-> FALSE,
     exp |-> 0, dup |-> ""]
NoReq == [hdr |-> None, cki |-> None, csrf |-> None]
\* a worker that holds no message, and the pool with every worker idle
Idle == [kind |-> "idle"]
NoJobs == [w \in 1 .. NumWorkers |-> Idle]
NoPerm ==
    [done |-> FALSE, p |-> 0, m |-> 0, user |-> FALSE, checkuser |-> FALSE,
     checkcan |-> FALSE]

----------------------------------------------------------------------------
(* The permission check on its own: SpecCan *)

PermValues == 0 .. (Pow2(PermBits) - 1)

InitCan ==
    /\ users = <<>>
    /\ mail = {}
    /\ now = StartTime
    /\ resp = NoResp
    /\ req = NoReq
    /\ admin = ""
    /\ ext = NoExt
    /\ perm \in {[NoPerm EXCEPT !.p = p, !.m = m] : p \in PermValues, m \in PermValues}
    /\ jobs = NoJobs

\* can(permission) of the three types, on the same inputs
EvalCan ==
    /\ ~perm.done
    /\ perm' = [perm EXCEPT !.done = TRUE,
                            !.user = UserCan(perm.p, perm.m),
                            !.checkuser = CheckUserCan(perm.p, perm.m),
                            !.checkcan = CheckCanCan(perm.p, perm.m)]
    /\ UNCHANGED <<users, mail, now, resp, req, admin, ext, jobs>>

NextCan == EvalCan

SpecCan == InitCan /\ [][NextCan]_vars

\* C10: can(p, m) is true iff every bit set in m is set in p; User, CheckUser
\* and CheckCan agree; with p = 0x03, can(0x04) is false and can(0x01) is true.
C10_CanIsAndEquality ==
    perm.done =>
        /\ perm.user = (\A i \in 0 .. 15 : Bit(perm.m, i) = 1 => Bit(perm.p, i) = 1)
        /\ perm.checkuser = perm.user
        /\ perm.checkcan = perm.user
        /\ (perm.p = 3 /\ perm.m = 4 => ~perm.user)
        /\ (perm.p = 3 /\ perm.m = 1 => perm.user)

\* the spec's example was evaluated: LIMIT|BASIC can LIMIT
C10_Witness ==
    perm.done /\ perm.p = 3 /\ perm.m = 1 /\ perm.user /\ perm.checkuser /\ perm.checkcan

----------------------------------------------------------------------------
(* The extractors on their own: SpecReq *)

\* a view as signin returns it: only id, uname and permission reach a token
ViewOf(id, uname, permission) ==
    [DefaultCheckUser EXCEPT !.id = id, !.uname = uname, !.permission = permission]

\* accounts that hold session tokens: two plain ones, one with the EDIT bit, one
\* with the ADMIN bit, and the one named like the configured admin
SessionViews ==
    {ViewOf(1, "alice", 3), ViewOf(2, "bob", 7), ViewOf(3, "root", 3),
     ViewOf(4, "dave", 131), ViewOf(5, "erin", 3)}

\* the values ADMIN of the environment takes: unset, and a name
AdminNames == {"", "root"}

\* the instants the clock of SpecReq visits: a session token of StartTime is
\* valid at the first two and expired at the third
ReqInstants == {StartTime, StartTime + SessionTtl, StartTime + SessionTtl + 1}

\* session tokens issued up to instant t
SessionTokens(t) ==
    {EncodeToken(v, s, s) : v \in SessionViews, s \in {i \in ReqInstants : i <= t}}

\* what a client can put in a request besides them: a token signed with another
\* key, text that is no token, an action token, and (a header only) bytes
ForgedSession == JwtEncode(ClaimsNew(2, "bob", 7, StartTime, StartTime), OtherKey)
ForgedAction ==
    JwtEncode([exp |-> StartTime + 2 * SessionTtl, uname |-> "alice",
               email |-> "a@x.io"], OtherKey)
ActionTokens(t) ==
    {GenerateToken("alice", "a@x.io", ttl, s) :
        ttl \in {0, ResetTtl}, s \in {i \in ReqInstants : i <= t}}

CookieValues(t) ==
    {None} \cup {Some(k) : k \in SessionTokens(t) \cup {ForgedSession, JunkToken}
                                 \cup {GenerateToken("alice", "a@x.io", ConfirmTtl, StartTime)}}
HeaderValues(t) == CookieValues(t) \cup {Some(BinToken)}
CsrfValues(t) ==
    {None, Some(BinToken), Some(JunkToken), Some(ForgedAction),
     Some(EncodeToken(ViewOf(1, "alice", 3), StartTime, StartTime)),
     Some(GenerateToken("n!", "bad", ResetTtl, StartTime))}
    \cup {Some(k) : k \in ActionTokens(t)}

InitReq ==
    /\ users = <<>>
    /\ mail = {}
    /\ now = StartTime
    /\ resp = NoResp
    /\ req = NoReq
    /\ admin \in AdminNames
    /\ ext = NoExt
    /\ perm = NoPerm
    /\ jobs = NoJobs

\* a request to a handler that takes CheckUser (update, change_psw)
ExtractCheckUser(h, c) ==
    /\ req' = [hdr |-> h, cki |-> c, csrf |-> None]
    /\ ext' = CheckUserFromRequest(req', now)
    /\ UNCHANGED <<users, mail, now, resp, admin, perm, jobs>>

\* a request to a handler that takes CheckCan (blog new, update, ...)
ExtractCheckCan(h, c) ==
    /\ req' = [hdr |-> h, cki |-> c, csrf |-> None]
    /\ ext' = CheckCanFromRequest(req', admin, now)
    /\ UNCHANGED <<users, mail, now, resp, admin, perm, jobs>>

\* a request to a view that takes CheckAuth
ExtractCheckAuth(h, c) ==
    /\ req' = [hdr |-> h, cki |-> c, csrf |-> None]
    /\ ext' = CheckAuthFromRequest(req', now)
    /\ UNCHANGED <<users, mail, now, resp, admin, perm, jobs>>

\* a request to a handler that takes CheckCsrf
ExtractCheckCsrf(x) ==
    /\ req' = [hdr |-> None, cki |-> None, csrf |-> x]
    /\ ext' = CheckCsrfFromRequest(req', now)
    /\ UNCHANGED <<users, mail, now, resp, admin, perm, jobs>>

\* time passes between two requests: the last response has been delivered
TickReq ==
    /\ \E t \in ReqInstants : t > now /\ now' = t
    /\ req' = NoReq
    /\ ext' = NoExt
    /\ UNCHANGED <<users, mail, resp, admin, perm, jobs>>

NextReq ==
    \/ \E h \in HeaderValues(now), c \in CookieValues(now) : ExtractCheckUser(h, c)
    \/ \E h \in HeaderValues(now), c \in CookieValues(now) : ExtractCheckCan(h, c)
    \/ \E h \in HeaderValues(now), c \in CookieValues(now) : ExtractCheckAuth(h, c)
    \/ \E x \in CsrfValues(now) : ExtractCheckCsrf(x)
    \/ TickReq

SpecReq == InitReq /\ [][NextReq]_vars

----------------------------------------------------------------------------
(* Claims about the extractors *)

\* o carries a session token this server issued that has not expired at t
ValidSession(o, t) == o.some /\ o.tok \in SessionTokens(t) /\ o.tok.claims.exp >= t

\* the identity inside a session token is elevated under admin name adm
ElevatedClaims(c, adm) == c.uname = adm \/ Bit(c.permission, 2) = 1

\* C2: the Elevated extractor succeeds only on a valid, unexpired session
\* token (header or cookie) of an elevated identity; without a valid session
\* token it fails with Unauthorized, whatever the admin name, unset included.
C2_ElevatedNeedsSession ==
    ext.by = "CheckCan" =>
        /\ ext.ok =>
              \E o \in {req.hdr, req.cki} :
                  ValidSession(o, now) /\ ElevatedClaims(o.tok.claims, admin)
        /\ (~ValidSession(req.hdr, now) /\ ~ValidSession(req.cki, now)) =>
              (~ext.ok /\ ext.err = "Unauthorized")

\* C3: with a valid session token of A in the header and one of another user
\* B in the cookie, every variant that yields an identity yields A's.
C3_HeaderPrecedence ==
    (/\ ext.by \in {"CheckUser", "CheckCan", "CheckAuth"}
     /\ ValidSession(req.hdr, now)
     /\ ValidSession(req.cki, now)
     /\ req.hdr.tok.claims.uname # req.cki.tok.claims.uname
     /\ ext.ok)
        => ext.uname = req.hdr.tok.claims.uname

\* C4: the Strict extractor succeeds iff the header or the cookie carries a
\* valid session token; header invalid and cookie valid yields the cookie's
\* identity; neither valid fails with Unauthorized.
C4_StrictExtractor ==
    ext.by = "CheckUser" =>
        LET hv == ValidSession(req.hdr, now)
            cv == ValidSession(req.cki, now)
        IN  /\ ext.ok <=> (hv \/ cv)
            /\ (~hv /\ cv) =>
                  /\ ext.id = req.cki.tok.claims.uid
                  /\ ext.uname = req.cki.tok.claims.uname
                  /\ ext.permission = req.cki.tok.claims.permission
            /\ (~hv /\ ~cv) => (~ext.ok /\ ext.err = "Unauthorized")

\* an expired token in the header, a valid one in the cookie: the cookie's identity
C4_Witness ==
    /\ ext.by = "CheckUser"
    /\ req.hdr.some
    /\ req.hdr.tok \in SessionTokens(now)
    /\ req.hdr.tok.claims.exp < now
    /\ ValidSession(req.cki, now)
    /\ ext.ok
    /\ ext.uname = req.cki.tok.claims.uname
    /\ ext.uname # req.hdr.tok.claims.uname

\* C5: the Optional extractor never fails, yields the username of a valid
\* session token whenever the header or the cookie carries one, and the
\* empty username otherwise.
C5_OptionalLikeStrict ==
    ext.by = "CheckAuth" =>
        LET valid == {o \in {req.hdr, req.cki} : ValidSession(o, now)}
        IN  /\ ext.ok
            /\ valid # {} => ext.uname \in {o.tok.claims.uname : o \in valid}
            /\ valid = {} => ext.uname = ""

----------------------------------------------------------------------------
(* The users table and the helpers of the workflows *)

\* what clients send as names, emails, passwords and profile fields
\* ("alice " trims to a taken name, "x" and "bad" fail the format tests, ""
\* is the email of an account that has none)
UNames == {"alice", "bob"}
SignupNames == UNames \cup {"alice ", "x"}
Emails == {"a@x.io", "b@x.io"}
EmailInputs == Emails \cup {"bad"}
Psws == {"Passw0rd1", "Passw0rd2"}
Nicknames == {"", "nick"}
Avatars == {"", "http://x.io/a.png"}
Intros == {"", "hello"}
Locations == {"", "here"}

\* str::trim on the inputs above
Trim(s) == IF s = "alice " THEN "alice" ELSE s

\* re_test_name, re_test_psw, re_test_email, re_test_url, test_len_limit of
\* crate::api: the format rules, as the sets of inputs that pass them
ReTestName(s) == s \in UNames \cup {"nick", "root", "dave", "erin"}
ReTestPsw(s) == s \in Psws
ReTestEmail(s) == s \in Emails
ReTestUrl(s) == s \in {"http://x.io/a.png"}
LocationLenOk(s) == s \in Locations

\* the transport encoding: a value that was base64-encoded, and one that was not
B64(v) == [b64 |-> TRUE, val |-> v]
Raw(v) == [b64 |-> FALSE, val |-> v]
\* String::from_utf8(decode(&s).unwrap_or(Vec::new())).unwrap_or("".into()), on a token
De64Tok(x) == IF x.b64 THEN x.val ELSE JunkToken
\* the same, on a password
De64Str(x) == IF x.b64 THEN x.val ELSE ""

\* a faulty variant of verify: every password verifies
VerifyAlways(plain, psw_hash) == TRUE
\* a faulty variant of hash_password: the hash does not depend on the password
HashPasswordFixed(plain) == [bcrypt |-> "Passw0rd1"]
\* bcrypt: hash and verify (the salt is left out)
HashPassword(plain) == [bcrypt |-> plain]
Verify(plain, psw_hash) == psw_hash = [bcrypt |-> plain]

\* a faulty variant of User::new: the account starts confirmed
NewBuildUserConfirmed(uname, psw_hash) ==
    [uname |-> uname, psw_hash |-> psw_hash, avatar |-> "", email |-> "",
     link |-> "", intro |-> "", location |-> "", nickname |-> "",
     permission |-> BitOr(LIMIT_PERMIT, BASIC_PERMIT), auth_from |-> "",
     email_confirmed |-> TRUE]
\* User::new completed by the row defaults: a BuildUser
NewBuildUser(uname, psw_hash) ==
    [uname |-> uname, psw_hash |-> psw_hash, avatar |-> "", email |-> "",
     link |-> "", intro |-> "", location |-> "", nickname |-> "",
     permission |-> BitOr(LIMIT_PERMIT, BASIC_PERMIT), auth_from |-> "",
     email_confirmed |-> FALSE]

\* the row an insert of a BuildUser makes: the serial id is the next one;
\* last_seen is the instant of the last signin, 0 as long as the column holds
\* the default of the table
RowOf(b, id) ==
    [id |-> id, uname |-> b.uname, psw_hash |-> b.psw_hash, last_seen |-> 0,
     avatar |-> b.avatar,
     email |-> b.email, link |-> b.link, intro |-> b.intro, location |-> b.location,
     nickname |-> b.nickname, permission |-> b.permission, auth_from |-> b.auth_from,
     email_confirmed |-> b.email_confirmed]

\* From<User> for CheckUser
CheckUserFromUser(u) ==
    [id |-> u.id, uname |-> u.uname, avatar |-> u.avatar, email |-> u.email,
     intro |-> u.intro, location |-> u.location, nickname |-> u.nickname,
     permission |-> u.permission, link |-> u.link, auth_from |-> u.auth_from,
     email_confirmed |-> u.email_confirmed]

\* a faulty variant of the lookup by email: no row is found
WhereEmailNone(tbl, e) == {}
\* users.filter(uname.eq(u)) and users.filter(email.eq(e)): the matching rows
WhereUname(tbl, u) == {i \in 1 .. Len(tbl) : tbl[i].uname = u}
WhereEmail(tbl, e) == {i \in 1 .. Len(tbl) : tbl[i].email = e}
\* .load::<User>(conn)?.pop() takes the last row, .get_result the first
LastOf(S) == CHOOSE i \in S : \A j \in S : j <= i
FirstOf(S) == CHOOSE i \in S : \A j \in S : i <= j

\* the unique index on users.uname: an insert of a taken name is refused
InsertAllowed(tbl, b) == WhereUname(tbl, b.uname) = {}

\* the responses
Resp(op, ok, status, msg) ==
    [NoResp EXCEPT !.op = op, !.ok = ok, !.status = status, !.msg = msg]
BadRequest(op, msg) == Resp(op, FALSE, 400, msg)
StorageError(op, sent) == [Resp(op, FALSE, 500, "storage") EXCEPT !.sent = sent]

\* the purposes for which a token was dispatched so far
Purposes(tok) == {m.purpose : m \in {x \in mail : x.tok = tok}}
\* a message handed to the email collaborator, or a token handed to a caller;
\* at (when), ttl (minutes) and view (whose session) are kept for the claims
Mail(purpose, to, uname, tok, ttl) ==
    [purpose |-> purpose, to |-> to, uname |-> uname, tok |-> tok, at |-> now,
     ttl |-> ttl, view |-> DefaultCheckUser]

----------------------------------------------------------------------------
(* Signup: POST api/signup *)

\* RegUser::validate
RegUserValidate(reg) == ReTestName(Trim(reg.uname)) /\ ReTestPsw(reg.password)

\* signup, with Handler<RegUser> and RegUser::register. send_ok: whether the
\* email collaborator accepts the message.
Signup(uname_in, email_in, psw_in, send_ok) ==
    LET reg == [uname |-> uname_in, email |-> email_in, password |-> De64Str(psw_in)]
        check_user == WhereUname(users, reg.uname)
        unm == Trim(reg.uname)
        new_user == NewBuildUser(unm, HashPassword(reg.password))
        user_email == Trim(reg.email)
        use_email == ReTestEmail(user_email) /\ WhereEmail(users, user_email) = {}
        newUser == IF use_email THEN [new_user EXCEPT !.email = user_email] ELSE new_user
        tok == GenerateToken(unm, user_email, ConfirmTtl, now)
        sent_mail == mail \cup {Mail("confirm", user_email, unm, tok, ConfirmTtl)}
    IN  /\ IF ~RegUserValidate(reg)
           THEN /\ resp' = BadRequest("signup", "Invalid username or password")
                /\ UNCHANGED <<users, mail>>
           ELSE IF check_user # {}
           THEN /\ resp' = [BadRequest("signup", "Duplicated Username") EXCEPT !.sent = TRUE]
                /\ UNCHANGED <<users, mail>>
           ELSE IF use_email /\ ~send_ok
           THEN /\ resp' = StorageError("signup", TRUE)
                /\ UNCHANGED <<users, mail>>
           ELSE /\ mail' = IF use_email THEN sent_mail ELSE mail
                /\ IF InsertAllowed(users, newUser)
                   THEN /\ users' = Append(users, RowOf(newUser, Len(users) + 1))
                        /\ resp' = [Resp("signup", TRUE, 201, "Success") EXCEPT
                                        !.sent = TRUE, !.uname = unm]
                   ELSE /\ users' = users
                        /\ resp' = StorageError("signup", TRUE)
       /\ Len(users') <= MaxUsers
       /\ Cardinality(mail') <= MaxMail
       /\ UNCHANGED <<now, req, admin, ext, perm, jobs>>

----------------------------------------------------------------------------
(* Reset phase 1: POST api/reset *)

\* ResetReq::validate
ResetReqValidate(uname_in) == ReTestName(uname_in)

\* a faulty variant of reset_psw_req: with no account of that name the answer
\* is the one of a token that was sent
ResetReqQuiet(uname_in, send_ok) ==
    LET rows == WhereUname(users, uname_in)
        check_user == users[FirstOf(rows)]
        rq_email == check_user.email
        tok == GenerateToken(uname_in, rq_email, ResetTtl, now)
        done == [Resp("reset_req", TRUE, 200, "The token has been sent to you via email")
                    EXCEPT !.sent = TRUE, !.uname = uname_in]
    IN  /\ IF ~ResetReqValidate(uname_in)
           THEN /\ resp' = BadRequest("reset_req", "Invalid")
                /\ mail' = mail
           ELSE IF rows = {}
           THEN /\ resp' = done
                /\ mail' = mail
           ELSE IF ~ReTestEmail(rq_email)
           THEN /\ resp' = [BadRequest("reset_req", "InValid Email or Username")
                               EXCEPT !.sent = TRUE]
                /\ mail' = mail
           ELSE IF ~send_ok
           THEN /\ resp' = StorageError("reset_req", TRUE)
                /\ mail' = mail
           ELSE /\ mail' = mail \cup {Mail("reset", rq_email, uname_in, tok, ResetTtl)}
                /\ resp' = done
       /\ Cardinality(mail') <= MaxMail
       /\ UNCHANGED <<users, now, req, admin, ext, perm, jobs>>
\* a faulty variant of reset_psw_req: the stored email is not tested
ResetReqAnyEmail(uname_in, send_ok) ==
    LET rows == WhereUname(users, uname_in)
        check_user == users[FirstOf(rows)]
        rq_email == check_user.email
        tok == GenerateToken(uname_in, rq_email, ResetTtl, now)
    IN  /\ IF ~ResetReqValidate(uname_in)
           THEN /\ resp' = BadRequest("reset_req", "Invalid")
                /\ mail' = mail
           ELSE IF rows = {}
           THEN /\ resp' = [StorageError("reset_req", TRUE) EXCEPT !.uname = uname_in]
                /\ mail' = mail
           ELSE IF ~send_ok
           THEN /\ resp' = StorageError("reset_req", TRUE)
                /\ mail' = mail
           ELSE /\ mail' = mail \cup {Mail("reset", rq_email, uname_in, tok, ResetTtl)}
                /\ resp' = [Resp("reset_req", TRUE, 200,
                                 "The token has been sent to you via email")
                               EXCEPT !.sent = TRUE, !.uname = uname_in]
       /\ Cardinality(mail') <= MaxMail
       /\ UNCHANGED <<users, now, req, admin, ext, perm, jobs>>
\* reset_psw_req, with Handler<ResetReq>
ResetReq(uname_in, send_ok) ==
    LET rows == WhereUname(users, uname_in)
        check_user == users[FirstOf(rows)]
        rq_email == check_user.email
        tok == GenerateToken(uname_in, rq_email, ResetTtl, now)
    IN  /\ IF ~ResetReqValidate(uname_in)
           THEN /\ resp' = BadRequest("reset_req", "Invalid")
                /\ mail' = mail
           ELSE IF rows = {}
           THEN /\ resp' = [StorageError("reset_req", TRUE) EXCEPT !.uname = uname_in]
                /\ mail' = mail
           ELSE IF ~ReTestEmail(rq_email)
           THEN /\ resp' = [BadRequest("reset_req", "InValid Email or Username")
                               EXCEPT !.sent = TRUE]
                /\ mail' = mail
           ELSE IF ~send_ok
           THEN /\ resp' = StorageError("reset_req", TRUE)
                /\ mail' = mail
           ELSE /\ mail' = mail \cup {Mail("reset", rq_email, uname_in, tok, ResetTtl)}
                /\ resp' = [Resp("reset_req", TRUE, 200,
                                 "The token has been sent to you via email")
                               EXCEPT !.sent = TRUE, !.uname = uname_in]
       /\ Cardinality(mail') <= MaxMail
       /\ UNCHANGED <<users, now, req, admin, ext, perm, jobs>>

----------------------------------------------------------------------------
(* Reset phase 2: POST api/reset/{token} *)

\* a faulty variant of ResetPsw::validate: the new password is not tested
ResetPswValidateAnyPsw(reset, t) == ReTestName(reset.uname) /\ t <= reset.exp
\* ResetPsw::validate
ResetPswValidate(reset, t) ==
    ReTestPsw(reset.re_psw) /\ ReTestName(reset.uname) /\ t <= reset.exp

\* a faulty variant of reset_psw: the email of the token is not compared with
\* the stored one
ResetPswAnyEmail(tok_in, psw_in) ==
    LET re_psw == De64Str(psw_in)
        de_tok == De64Tok(tok_in)
        tc == VerifyToken(de_tok, now)
        reset == [re_psw |-> re_psw, uname |-> tc.uname, email |-> tc.email,
                  exp |-> tc.exp]
        rows == WhereUname(users, reset.uname)
        i == LastOf(rows)
        seen(r) == [r EXCEPT !.tok = de_tok, !.via = Purposes(de_tok), !.claim = tc]
    IN  /\ IF ~ResetPswValidate(reset, now)
           THEN /\ resp' = seen(BadRequest("reset_psw", "Invalid password"))
                /\ users' = users
           ELSE IF rows = {}
           THEN /\ resp' = seen([BadRequest("reset_psw", "Not Existing") EXCEPT !.sent = TRUE])
                /\ users' = users
           ELSE /\ users' = [users EXCEPT ![i].psw_hash = HashPassword(reset.re_psw)]
                /\ resp' = seen([Resp("reset_psw", TRUE, 200, "Success") EXCEPT
                                    !.sent = TRUE, !.uname = reset.uname])
       /\ UNCHANGED <<mail, now, req, admin, ext, perm, jobs>>
\* a faulty variant of reset_psw: a reset is refused once the stored password
\* is no longer the one set at signup
ResetPswOnce(tok_in, psw_in) ==
    LET re_psw == De64Str(psw_in)
        de_tok == De64Tok(tok_in)
        tc == VerifyToken(de_tok, now)
        reset == [re_psw |-> re_psw, uname |-> tc.uname, email |-> tc.email,
                  exp |-> tc.exp]
        rows == WhereUname(users, reset.uname)
        i == LastOf(rows)
        seen(r) == [r EXCEPT !.tok = de_tok, !.via = Purposes(de_tok), !.claim = tc]
    IN  /\ IF ~ResetPswValidate(reset, now)
           THEN /\ resp' = seen(BadRequest("reset_psw", "Invalid password"))
                /\ users' = users
           ELSE IF rows = {}
           THEN /\ resp' = seen([BadRequest("reset_psw", "Not Existing") EXCEPT !.sent = TRUE])
                /\ users' = users
           ELSE IF users[i].email = reset.email
                   /\ users[i].psw_hash = [bcrypt |-> "Passw0rd1"]
           THEN /\ users' = [users EXCEPT ![i].psw_hash = HashPassword(reset.re_psw)]
                /\ resp' = seen([Resp("reset_psw", TRUE, 200, "Success") EXCEPT
                                    !.sent = TRUE, !.uname = reset.uname])
           ELSE /\ resp' = seen([BadRequest("reset_psw", "Auth Failed") EXCEPT !.sent = TRUE])
                /\ users' = users
       /\ UNCHANGED <<mail, now, req, admin, ext, perm, jobs>>
\* reset_psw, with Handler<ResetPsw>
ResetPsw(tok_in, psw_in) ==
    LET re_psw == De64Str(psw_in)
        de_tok == De64Tok(tok_in)
        tc == VerifyToken(de_tok, now)
        reset == [re_psw |-> re_psw, uname |-> tc.uname, email |-> tc.email,
                  exp |-> tc.exp]
        rows == WhereUname(users, reset.uname)
        i == LastOf(rows)
        seen(r) == [r EXCEPT !.tok = de_tok, !.via = Purposes(de_tok), !.claim = tc]
    IN  /\ IF ~ResetPswValidate(reset, now)
           THEN /\ resp' = seen(BadRequest("reset_psw", "Invalid password"))
                /\ users' = users
           ELSE IF rows = {}
           THEN /\ resp' = seen([BadRequest("reset_psw", "Not Existing") EXCEPT !.sent = TRUE])
                /\ users' = users
           ELSE IF users[i].email = reset.email
           THEN /\ users' = [users EXCEPT ![i].psw_hash = HashPassword(reset.re_psw)]
                /\ resp' = seen([Resp("reset_psw", TRUE, 200, "Success") EXCEPT
                                    !.sent = TRUE, !.uname = reset.uname])
           ELSE /\ resp' = seen([BadRequest("reset_psw", "Auth Failed") EXCEPT !.sent = TRUE])
                /\ users' = users
       /\ UNCHANGED <<mail, now, req, admin, ext, perm, jobs>>

----------------------------------------------------------------------------
(* Email confirmation: GET /confirm/{token} *)

\* Handler<TokClaim>: let check: bool = tok.exp >= now
ConfirmUnexpired(tok, t) == tok.exp >= t

\* a faulty variant of confirm_email: an account that is confirmed already is
\* refused
ConfirmEmailOnce(tok_in) ==
    LET de_tok == De64Tok(tok_in)
        tc == VerifyToken(de_tok, now)
        rows == WhereUname(users, tc.uname)
        i == LastOf(rows)
        check == ConfirmUnexpired(tc, now)
        seen(r) == [r EXCEPT !.tok = de_tok, !.via = Purposes(de_tok), !.claim = tc,
                             !.sent = TRUE]
    IN  /\ IF rows # {} /\ check /\ users[i].email = tc.email
              /\ ~users[i].email_confirmed
           THEN /\ users' = [users EXCEPT ![i].email_confirmed = TRUE]
                /\ resp' = seen([Resp("confirm", TRUE, 200,
                                      "Thanks for Confirming your Email!")
                                    EXCEPT !.uname = tc.uname,
                                           !.was = users[i].email_confirmed])
           ELSE /\ users' = users
                /\ resp' = seen(Resp("confirm", FALSE, 200, "Ooops...Failed!"))
       /\ UNCHANGED <<mail, now, req, admin, ext, perm, jobs>>
\* a faulty variant of confirm_email: the email of the token is not compared
\* with the stored one
ConfirmEmailAnyEmail(tok_in) ==
    LET de_tok == De64Tok(tok_in)
        tc == VerifyToken(de_tok, now)
        rows == WhereUname(users, tc.uname)
        i == LastOf(rows)
        check == ConfirmUnexpired(tc, now)
        seen(r) == [r EXCEPT !.tok = de_tok, !.via = Purposes(de_tok), !.claim = tc,
                             !.sent = TRUE]
    IN  /\ IF rows # {} /\ check
           THEN /\ users' = [users EXCEPT ![i].email_confirmed = TRUE]
                /\ resp' = seen([Resp("confirm", TRUE, 200,
                                      "Thanks for Confirming your Email!")
                                    EXCEPT !.uname = tc.uname,
                                           !.was = users[i].email_confirmed])
           ELSE /\ users' = users
                /\ resp' = seen(Resp("confirm", FALSE, 200, "Ooops...Failed!"))
       /\ UNCHANGED <<mail, now, req, admin, ext, perm, jobs>>
\* confirm_email, with Handler<TokClaim>
ConfirmEmail(tok_in) ==
    LET de_tok == De64Tok(tok_in)
        tc == VerifyToken(de_tok, now)
        rows == WhereUname(users, tc.uname)
        i == LastOf(rows)
        check == ConfirmUnexpired(tc, now)
        seen(r) == [r EXCEPT !.tok = de_tok, !.via = Purposes(de_tok), !.claim = tc,
                             !.sent = TRUE]
    IN  /\ IF rows # {} /\ check /\ users[i].email = tc.email
           THEN /\ users' = [users EXCEPT ![i].email_confirmed = TRUE]
                /\ resp' = seen([Resp("confirm", TRUE, 200,
                                      "Thanks for Confirming your Email!")
                                    EXCEPT !.uname = tc.uname,
                                           !.was = users[i].email_confirmed])
           ELSE /\ users' = users
                /\ resp' = seen(Resp("confirm", FALSE, 200, "Ooops...Failed!"))
       /\ UNCHANGED <<mail, now, req, admin, ext, perm, jobs>>

----------------------------------------------------------------------------
(* Profile update: POST api/users/{uname} *)

\* UpdateUser::validate
UpdateUserValidate(up) ==
    LET nickname_test == IF Len(Trim(up.nickname)) = 0 THEN TRUE
                         ELSE ReTestName(Trim(up.nickname))
        avatar_test == IF Len(Trim(up.avatar)) = 0 THEN TRUE
                       ELSE ReTestUrl(Trim(up.avatar))
        check_len == LocationLenOk(up.location)
    IN  nickname_test /\ avatar_test /\ check_len

\* a faulty variant of the changeset: it also writes the permission
ApplyChangesetPermit(row, up) ==
    [row EXCEPT !.uname = up.uname, !.avatar = up.avatar, !.email = up.email,
                !.intro = up.intro, !.location = up.location, !.nickname = up.nickname,
                !.permission = EIDT_PERMIT]
\* the changeset applied to a row: every field of UpdateUser
ApplyChangeset(row, up) ==
    [row EXCEPT !.uname = up.uname, !.avatar = up.avatar, !.email = up.email,
                !.intro = up.intro, !.location = up.location, !.nickname = up.nickname]

\* a faulty variant of the diff: every update counts as a change
CheckChangedAlways(up, old_user) == TRUE
\* UpdateUser::update: let check_changed, the diff over the profile fields
CheckChanged(up, old_user) ==
    \/ Trim(up.avatar) # Trim(old_user.avatar)
    \/ Trim(up.intro) # Trim(old_user.intro)
    \/ Trim(up.location) # Trim(old_user.location)
    \/ Trim(up.nickname) # Trim(old_user.nickname)
\* a faulty variant of update: the authenticated name is not compared with
\* the username of the input
UpdateAnyTarget(r, up, send_ok) ==
    LET auth == CheckUserFromRequest(r, now)
        new_user_email == Trim(up.email)
        unm == Trim(up.uname)
        rows == WhereUname(users, unm)
        i == FirstOf(rows)
        old_user == users[i]
        old_user_email == Trim(old_user.email)
        check_changed == CheckChanged(up, old_user)
        other_email == ReTestEmail(new_user_email) /\ new_user_email # old_user_email
        check_dup_email == WhereEmail(users, new_user_email) # {}
        adopt == other_email /\ ~check_dup_email
        up_user == IF adopt THEN up ELSE [up EXCEPT !.email = old_user_email]
        tok == GenerateToken(unm, new_user_email, ConfirmTtl, now)
        update_user == ApplyChangeset(old_user, up_user)
        user == CheckUserFromUser(update_user)
    IN  /\ req' = r
        /\ ext' = auth
        /\ IF ~auth.ok
           THEN /\ resp' = Resp("update", FALSE, 401, "Unauthorized")
                /\ UNCHANGED <<users, mail>>
           ELSE IF ~UpdateUserValidate(up)
           THEN /\ resp' = BadRequest("update", "Invalid Input")
                /\ UNCHANGED <<users, mail>>
           ELSE IF rows = {}
           THEN /\ resp' = StorageError("update", TRUE)
                /\ UNCHANGED <<users, mail>>
           ELSE IF ~check_changed /\ new_user_email = old_user_email
           THEN /\ resp' = [BadRequest("update", "Nothing Changed") EXCEPT !.sent = TRUE]
                /\ UNCHANGED <<users, mail>>
           ELSE IF other_email /\ check_dup_email /\ ~check_changed
           THEN /\ resp' = [BadRequest("update", "Nothing Changed") EXCEPT
                                !.sent = TRUE, !.dup = new_user_email]
                /\ UNCHANGED <<users, mail>>
           ELSE IF adopt /\ ~send_ok
           THEN /\ resp' = StorageError("update", TRUE)
                /\ UNCHANGED <<users, mail>>
           ELSE /\ mail' = IF adopt
                           THEN mail \cup {Mail("confirm", new_user_email, unm, tok, ConfirmTtl)}
                           ELSE mail
                /\ users' = [users EXCEPT ![i] = update_user]
                /\ resp' = [Resp("update", TRUE, 200, "Success") EXCEPT
                                !.sent = TRUE, !.uname = unm, !.user = user,
                                !.tok = EncodeToken(user, now, now), !.exp = 5,
                                !.dup = IF other_email /\ check_dup_email
                                        THEN new_user_email ELSE "",
                                !.omg = (user.uname = admin
                                         \/ CheckUserCan(user.permission, EIDT_PERMIT))]
       /\ Cardinality(mail') <= MaxMail
       /\ UNCHANGED <<now, admin, perm, jobs>>
\* update, with the CheckUser extractor, Handler<UpdateUser> and UpdateUser::update
Update(r, up, send_ok) ==
    LET auth == CheckUserFromRequest(r, now)
        new_user_email == Trim(up.email)
        unm == Trim(up.uname)
        rows == WhereUname(users, unm)
        i == FirstOf(rows)
        old_user == users[i]
        old_user_email == Trim(old_user.email)
        check_changed == CheckChanged(up, old_user)
        other_email == ReTestEmail(new_user_email) /\ new_user_email # old_user_email
        check_dup_email == WhereEmail(users, new_user_email) # {}
        adopt == other_email /\ ~check_dup_email
        up_user == IF adopt THEN up ELSE [up EXCEPT !.email = old_user_email]
        tok == GenerateToken(unm, new_user_email, ConfirmTtl, now)
        update_user == ApplyChangeset(old_user, up_user)
        user == CheckUserFromUser(update_user)
    IN  /\ req' = r
        /\ ext' = auth
        /\ IF ~auth.ok \/ auth.uname # up.uname
           THEN /\ resp' = Resp("update", FALSE, 401, "Unauthorized")
                /\ UNCHANGED <<users, mail>>
           ELSE IF ~UpdateUserValidate(up)
           THEN /\ resp' = BadRequest("update", "Invalid Input")
                /\ UNCHANGED <<users, mail>>
           ELSE IF rows = {}
           THEN /\ resp' = StorageError("update", TRUE)
                /\ UNCHANGED <<users, mail>>
           ELSE IF ~check_changed /\ new_user_email = old_user_email
           THEN /\ resp' = [BadRequest("update", "Nothing Changed") EXCEPT !.sent = TRUE]
                /\ UNCHANGED <<users, mail>>
           ELSE IF other_email /\ check_dup_email /\ ~check_changed
           THEN /\ resp' = [BadRequest("update", "Nothing Changed") EXCEPT
                                !.sent = TRUE, !.dup = new_user_email]
                /\ UNCHANGED <<users, mail>>
           ELSE IF adopt /\ ~send_ok
           THEN /\ resp' = StorageError("update", TRUE)
                /\ UNCHANGED <<users, mail>>
           ELSE /\ mail' = IF adopt
                           THEN mail \cup {Mail("confirm", new_user_email, unm, tok, ConfirmTtl)}
                           ELSE mail
                /\ users' = [users EXCEPT ![i] = update_user]
                /\ resp' = [Resp("update", TRUE, 200, "Success") EXCEPT
                                !.sent = TRUE, !.uname = unm, !.user = user,
                                !.tok = EncodeToken(user, now, now), !.exp = 5,
                                !.dup = IF other_email /\ check_dup_email
                                        THEN new_user_email ELSE "",
                                !.omg = (user.uname = admin
                                         \/ CheckUserCan(user.permission, EIDT_PERMIT))]
       /\ Cardinality(mail') <= MaxMail
       /\ UNCHANGED <<now, admin, perm, jobs>>

----------------------------------------------------------------------------
(* The account workflows together: Spec *)

\* the instants the clock of Spec visits: StartTime, and one past the expiry of
\* the reset and confirmation tokens of StartTime
Instants == {StartTime, StartTime + ConfirmTtl * 60 + 1}

\* time passes between two requests: the last response has been delivered
Tick ==
    /\ \E t \in Instants : t > now /\ now' = t
    /\ resp' = NoResp
    /\ req' = NoReq
    /\ ext' = NoExt
    /\ UNCHANGED <<users, mail, admin, perm, jobs>>

\* what a client can send as a token: one it got by mail, with or without the
\* base64 wrapping, one signed with another key, and text that is no token
ForgedTokens ==
    {JwtEncode([exp |-> StartTime + 2 * SessionTtl, uname |-> u, email |-> e], OtherKey) :
        u \in {"alice"}, e \in {"a@x.io"}}
TokenInputs ==
    {B64(m.tok) : m \in mail} \cup {Raw(m.tok) : m \in mail}
    \cup {B64(k) : k \in ForgedTokens} \cup {B64(JunkToken)}

\* the passwords a client sends: encoded, not encoded (it decodes to "", which
\* fails the format), and one that is too short
SignupPswInputs == {B64("Passw0rd1"), Raw("Passw0rd1")}
ResetPswInputs == {B64("Passw0rd2"), B64("short")}

\* the requests to update: no session, or the session of an account
AuthRequests ==
    {NoReq} \cup
    {[NoReq EXCEPT !.hdr = Some(EncodeToken(CheckUserFromUser(users[i]), now, now))] :
        i \in 1 .. Len(users)}
\* the updates of Spec change the email only
UpdateInputs ==
    [uname : UNames, avatar : {""}, email : Emails \cup {""}, intro : {""},
     location : {""}, nickname : {""}]

Init ==
    /\ users = <<>>
    /\ mail = {}
    /\ now = StartTime
    /\ resp = NoResp
    /\ req = NoReq
    /\ admin = "root"
    /\ ext = NoExt
    /\ perm = NoPerm
    /\ jobs = NoJobs

Next ==
    \/ \E u \in SignupNames, e \in EmailInputs, p \in SignupPswInputs, s \in BOOLEAN :
          Signup(u, e, p, s)
    \/ \E r \in AuthRequests, up \in UpdateInputs, s \in BOOLEAN : Update(r, up, s)
    \/ \E u \in SignupNames, s \in BOOLEAN : ResetReq(u, s)
    \/ \E k \in TokenInputs, p \in ResetPswInputs : ResetPsw(k, p)
    \/ \E k \in TokenInputs : ConfirmEmail(k)
    \/ Tick

Spec == Init /\ [][Next]_vars

\* C1: an action token is single-purpose: the confirmation flow never accepts
\* a token issued by reset phase 1, and reset phase 2 never accepts a token
\* issued as a confirmation token (at signup or profile update).
C1_SinglePurpose ==
    /\ ~(resp.op = "confirm" /\ resp.ok /\ "reset" \in resp.via)
    /\ ~(resp.op = "reset_psw" /\ resp.ok /\ "confirm" \in resp.via)

----------------------------------------------------------------------------
(* The life of an action token: SpecTok *)

\* the instants the clock of SpecTok visits, counted from StartTime: the same
\* second, then 119, 120 and 121 minutes later and the second after 120 minutes
TokInstants ==
    {StartTime, StartTime + 119 * 60, StartTime + 120 * 60, StartTime + 120 * 60 + 1,
     StartTime + 121 * 60}

\* the lifetimes generate_token is called with here: none, and that of a reset
TtlInputs == {0, ResetTtl}

\* an account as signup leaves it
AliceRow == RowOf([NewBuildUser("alice", HashPassword("Passw0rd1")) EXCEPT
                       !.email = "a@x.io"], 1)

\* a session token, which is validly signed and is no action token
AliceSession == EncodeToken(CheckUserFromUser(AliceRow), StartTime, StartTime)

InitTok ==
    /\ users = <<AliceRow>>
    /\ mail = {}
    /\ now = StartTime
    /\ resp = NoResp
    /\ req = NoReq
    /\ admin = "root"
    /\ ext = NoExt
    /\ perm = NoPerm
    /\ jobs = NoJobs

\* generate_token called with a lifetime: the token goes to the caller
IssueAction(uname, email, ttl) ==
    LET tok == GenerateToken(uname, email, ttl, now) IN
    /\ mail' = mail \cup {Mail("direct", email, uname, tok, ttl)}
    /\ Cardinality(mail') <= MaxMail
    /\ resp' = [Resp("generate_token", TRUE, 0, "") EXCEPT !.tok = tok, !.uname = uname]
    /\ UNCHANGED <<users, now, req, admin, ext, perm, jobs>>

\* verify_token called on a token
VerifyAction(tok) ==
    /\ resp' = [Resp("verify_token", TRUE, 0, "") EXCEPT
                    !.tok = tok, !.via = Purposes(tok), !.claim = VerifyToken(tok, now)]
    /\ UNCHANGED <<users, mail, now, req, admin, ext, perm, jobs>>

TickTok ==
    /\ \E t \in TokInstants : t > now /\ now' = t
    /\ resp' = NoResp
    /\ req' = NoReq
    /\ ext' = NoExt
    /\ UNCHANGED <<users, mail, admin, perm, jobs>>

\* the tokens submitted: those issued, forged ones, a session token, no token
TokTokens == {m.tok : m \in mail} \cup ForgedTokens \cup {AliceSession, JunkToken}

NextTok ==
    \/ \E ttl \in TtlInputs : IssueAction("alice", "a@x.io", ttl)
    \/ \E k \in TokTokens : VerifyAction(k)
    \/ \E k \in TokTokens, p \in ResetPswInputs : ResetPsw(B64(k), p)
    \/ \E k \in TokTokens : ConfirmEmail(B64(k))
    \/ \E k \in TokTokens : ExtractCheckCsrf(Some(k))
    \/ ExtractCheckCsrf(None)
    \/ TickTok

SpecTok == InitTok /\ [][NextTok]_vars

\* the entries of mail that hold an action token
ActionMail == {m \in mail : m.purpose # "session"}
\* the claim the handler of a reset gets for the token it was sent
ResetOf(tc) ==
    [re_psw |-> "Passw0rd2", uname |-> tc.uname, email |-> tc.email, exp |-> tc.exp]

\* C7: an action token issued with a lifetime of 0 minutes is rejected by
\* reset phase 2, by the email confirmation and by the CSRF check at every
\* instant from its issuance on, the second of its issuance included.
C7_ZeroTtlRejected ==
    \A m \in ActionMail :
        m.ttl = 0 =>
            /\ ~(resp.op = "reset_psw" /\ resp.tok = m.tok /\ resp.ok)
            /\ ~(resp.op = "confirm" /\ resp.tok = m.tok /\ resp.ok)
            /\ ~(ext.by = "CheckCsrf" /\ req.csrf = Some(m.tok) /\ ext.ok)

\* C8: a token issued with a lifetime of T minutes expires T minutes after its
\* issuance; one of 120 minutes passes the expiry check of ResetPsw::validate
\* up to 119 minutes after its issuance and fails it from 121 minutes on.
C8_TtlInMinutes ==
    \A m \in ActionMail :
        /\ m.tok.claims.exp = m.at + m.ttl * 60
        /\ (resp.op = "reset_psw" /\ resp.tok = m.tok /\ m.ttl = 120) =>
              /\ now - m.at <= 119 * 60 =>
                    /\ ResetPswValidate(ResetOf(resp.claim), now)
                    /\ resp.msg = "Invalid password" => ~resp.sent
                    /\ resp.msg # "Invalid password" => resp.ok
              /\ now - m.at >= 121 * 60 =>
                    /\ ~ResetPswValidate(ResetOf(resp.claim), now)
                    /\ resp.msg = "Invalid password"
                    /\ ~resp.ok

\* a reset with a token of 120 minutes succeeded 119 minutes after its issuance
C8_Witness ==
    /\ resp.op = "reset_psw"
    /\ resp.ok
    /\ \E m \in ActionMail :
          m.tok = resp.tok /\ m.ttl = 120 /\ now = m.at + 119 * 60

\* C9: verify_token returns a claim for every input: the expiry, username and
\* email of the token when it is an issued token that has not expired, and the
\* sentinel (expiry 0, empty username and email) for every other input.
C9_VerifyNeverFails ==
    resp.op = "verify_token" =>
        /\ resp.claim \in [exp : Int, uname : STRING, email : STRING]
        /\ IF \E m \in ActionMail : m.tok = resp.tok /\ m.at + m.ttl * 60 >= now
           THEN \E m \in ActionMail :
                   /\ m.tok = resp.tok
                   /\ resp.claim = [exp |-> m.at + m.ttl * 60, uname |-> m.uname,
                                    email |-> m.to]
           ELSE resp.claim = [exp |-> 0, uname |-> "", email |-> ""]

\* verify_token was given an issued token after its expiry, and one that was
\* signed with another key
C9_Witness ==
    /\ resp.op = "verify_token"
    /\ resp.claim = SentinelClaim
    /\ \/ \E m \in ActionMail : m.tok = resp.tok /\ m.tok.claims.exp < now
       \/ resp.tok \in ForgedTokens

----------------------------------------------------------------------------
(* The life of a session token: SpecSess *)

\* the instants the clock of SpecSess visits besides those an issuance ends at
SessInstants ==
    {StartTime, StartTime + 1, StartTime + SessionTtl, StartTime + SessionTtl + 1,
     StartTime + SessionTtl + 2}

\* the seconds that pass between the two reads of the clock in Claims::new
ClockSkews == {0, 1}

\* the account views signin hands to encode_token: profile fields are set
SessViews ==
    {[ViewOf(1, "alice", 3) EXCEPT !.email = "a@x.io", !.nickname = "Al",
                                   !.email_confirmed = TRUE],
     ViewOf(2, "bob", 7),
     [ViewOf(4, "dave", 131) EXCEPT !.location = "Oslo"]}

InitSess ==
    /\ users = <<>>
    /\ mail = {}
    /\ now = StartTime
    /\ resp = NoResp
    /\ req = NoReq
    /\ admin = "root"
    /\ ext = NoExt
    /\ perm = NoPerm
    /\ jobs = NoJobs

\* encode_token called on a view: the token is issued when the call returns
IssueSession(v, d) ==
    LET tok == EncodeToken(v, now, now + d) IN
    /\ now + d \in SessInstants
    /\ now' = now + d
    /\ mail' = mail \cup {[Mail("session", "", v.uname, tok, SessionTtl \div 60) EXCEPT
                              !.at = now + d, !.view = v]}
    /\ Cardinality(mail') <= MaxMail
    /\ resp' = [Resp("encode_token", TRUE, 0, "") EXCEPT !.tok = tok, !.uname = v.uname]
    /\ req' = NoReq
    /\ ext' = NoExt
    /\ UNCHANGED <<users, admin, perm, jobs>>

\* decode_token called on a token
DecodeSession(tok) ==
    LET r == DecodeToken(tok, now) IN
    /\ resp' = [Resp("decode_token", r.ok, 0, r.err) EXCEPT !.tok = tok, !.user = r.user,
                                                            !.uname = r.user.uname]
    /\ UNCHANGED <<users, mail, now, req, admin, ext, perm, jobs>>

TickSess ==
    /\ \E t \in SessInstants : t > now /\ now' = t
    /\ resp' = NoResp
    /\ req' = NoReq
    /\ ext' = NoExt
    /\ UNCHANGED <<users, mail, admin, perm, jobs>>

\* the tokens submitted: those issued, copies of them signed with another key,
\* an action token, and text that is no token
SessTokens ==
    {m.tok : m \in mail} \cup {[m.tok EXCEPT !.key = OtherKey] : m \in mail}
    \cup {GenerateToken("alice", "a@x.io", ConfirmTtl, StartTime), JunkToken}

NextSess ==
    \/ \E v \in SessViews, d \in ClockSkews : IssueSession(v, d)
    \/ \E k \in SessTokens : DecodeSession(k)
    \/ TickSess

SpecSess == InitSess /\ [][NextSess]_vars

\* the entries of mail that hold a session token
SessionMail == {m \in mail : m.purpose = "session"}

\* C6: verifying a session token issued for a view at an instant up to its
\* expiry yields a view with the id, username and permission of that view and
\* empty profile fields; verifying it later than 5 days after its issuance
\* fails with Unauthorized, as does verifying a token that was not issued, be it
\* one with a bad signature or one of another structure.
C6_SessionRoundTrip ==
    /\ \A m \in SessionMail :
          m.tok.claims.exp = m.at + 5 * 24 * 3600
    /\ resp.op = "decode_token" =>
          IF resp.tok \in {m.tok : m \in SessionMail}
          THEN \A m \in SessionMail :
                  m.tok = resp.tok =>
                     /\ now <= m.tok.claims.exp =>
                           /\ resp.ok
                           /\ resp.user = ViewOf(m.view.id, m.view.uname,
                                                 m.view.permission)
                     /\ now > m.at + 5 * 24 * 3600 =>
                           /\ ~resp.ok
                           /\ resp.msg = "Unauthorized"
          ELSE ~resp.ok /\ resp.msg = "Unauthorized"

\* a token of a view with profile fields was verified in the last second of
\* its life
C6_Witness ==
    /\ resp.op = "decode_token"
    /\ resp.ok
    /\ \E m \in SessionMail :
          /\ m.tok = resp.tok
          /\ m.view.email # ""
          /\ now = m.tok.claims.exp
          /\ resp.user.permission = 3

----------------------------------------------------------------------------
(* Signin: POST api/signin *)

\* test_len_limit of crate::api: the length of s lies within the two limits
TestLenLimit(s, lo, hi) == lo <= Len(s) /\ Len(s) <= hi

\* AuthUser::validate
AuthUserValidate(a) ==
    TestLenLimit(Trim(a.uname), 3, 42) /\ TestLenLimit(a.password, 8, 18)

\* signin, with Handler<AuthUser> and AuthUser::auth, which writes last_seen
Signin(uname_in, psw_in) ==
    LET auth_user == [uname |-> uname_in, password |-> De64Str(psw_in)]
        rows == WhereUname(users, Trim(auth_user.uname))
        check_user == users[LastOf(rows)]
        user == CheckUserFromUser(check_user)
    IN  /\ IF ~AuthUserValidate(auth_user)
           THEN /\ resp' = BadRequest("signin", "Invalid username or password")
                /\ users' = users
           ELSE IF rows # {} /\ Verify(auth_user.password, check_user.psw_hash)
           THEN /\ users' = [users EXCEPT ![LastOf(rows)].last_seen = now]
                /\ resp' = [Resp("signin", TRUE, 200, "Success") EXCEPT
                               !.sent = TRUE, !.uname = user.uname, !.user = user,
                               !.tok = EncodeToken(user, now, now), !.exp = 5,
                               !.omg = (user.uname = admin
                                        \/ CheckUserCan(user.permission, EIDT_PERMIT))]
           ELSE /\ resp' = [BadRequest("signin", "Auth Failed") EXCEPT !.sent = TRUE]
                /\ users' = users
       /\ UNCHANGED <<mail, now, req, admin, ext, perm, jobs>>

----------------------------------------------------------------------------
(* Change of password: PUT api/users/{uname} *)

\* ChangePsw::validate
ChangePswValidate(psw) == ReTestPsw(psw.new_psw)

\* a faulty variant of change_psw: the account is loaded before the new
\* password is validated
ChangePswLate(r, uname_in, old_in, new_in) ==
    LET auth == CheckUserFromRequest(r, now)
        psw == [old_psw |-> De64Str(old_in), new_psw |-> De64Str(new_in),
                uname |-> uname_in]
        rows == WhereUname(users, psw.uname)
        i == LastOf(rows)
    IN  /\ req' = r
        /\ ext' = auth
        /\ IF ~auth.ok \/ auth.uname # psw.uname
           THEN /\ resp' = Resp("change_psw", FALSE, 401, "Unauthorized")
                /\ users' = users
           ELSE IF rows = {}
           THEN /\ resp' = [BadRequest("change_psw", "Not Existing") EXCEPT !.sent = TRUE]
                /\ users' = users
           ELSE IF ~ChangePswValidate(psw)
           THEN /\ resp' = [BadRequest("change_psw", "Invalid password") EXCEPT
                                !.sent = TRUE]
                /\ users' = users
           ELSE IF Verify(psw.old_psw, users[i].psw_hash)
           THEN /\ users' = [users EXCEPT ![i].psw_hash = HashPassword(psw.new_psw)]
                /\ resp' = [Resp("change_psw", TRUE, 200, "Success") EXCEPT
                                !.sent = TRUE, !.uname = psw.uname]
           ELSE /\ resp' = [BadRequest("change_psw", "Failed Auth") EXCEPT !.sent = TRUE]
                /\ users' = users
       /\ UNCHANGED <<mail, now, admin, perm, jobs>>
\* a faulty variant of change_psw: the authenticated name is not compared
\* with the target
ChangePswAnyTarget(r, uname_in, old_in, new_in) ==
    LET auth == CheckUserFromRequest(r, now)
        psw == [old_psw |-> De64Str(old_in), new_psw |-> De64Str(new_in),
                uname |-> uname_in]
        rows == WhereUname(users, psw.uname)
        i == LastOf(rows)
    IN  /\ req' = r
        /\ ext' = auth
        /\ IF ~auth.ok
           THEN /\ resp' = Resp("change_psw", FALSE, 401, "Unauthorized")
                /\ users' = users
           ELSE IF ~ChangePswValidate(psw)
           THEN /\ resp' = BadRequest("change_psw", "Invalid password")
                /\ users' = users
           ELSE IF rows = {}
           THEN /\ resp' = [BadRequest("change_psw", "Not Existing") EXCEPT !.sent = TRUE]
                /\ users' = users
           ELSE IF Verify(psw.old_psw, users[i].psw_hash)
           THEN /\ users' = [users EXCEPT ![i].psw_hash = HashPassword(psw.new_psw)]
                /\ resp' = [Resp("change_psw", TRUE, 200, "Success") EXCEPT
                                !.sent = TRUE, !.uname = psw.uname]
           ELSE /\ resp' = [BadRequest("change_psw", "Failed Auth") EXCEPT !.sent = TRUE]
                /\ users' = users
       /\ UNCHANGED <<mail, now, admin, perm, jobs>>
\* change_psw, with the CheckUser extractor and Handler<ChangePsw>
ChangePsw(r, uname_in, old_in, new_in) ==
    LET auth == CheckUserFromRequest(r, now)
        psw == [old_psw |-> De64Str(old_in), new_psw |-> De64Str(new_in),
                uname |-> uname_in]
        rows == WhereUname(users, psw.uname)
        i == LastOf(rows)
    IN  /\ req' = r
        /\ ext' = auth
        /\ IF ~auth.ok \/ auth.uname # psw.uname
           THEN /\ resp' = Resp("change_psw", FALSE, 401, "Unauthorized")
                /\ users' = users
           ELSE IF ~ChangePswValidate(psw)
           THEN /\ resp' = BadRequest("change_psw", "Invalid password")
                /\ users' = users
           ELSE IF rows = {}
           THEN /\ resp' = [BadRequest("change_psw", "Not Existing") EXCEPT !.sent = TRUE]
                /\ users' = users
           ELSE IF Verify(psw.old_psw, users[i].psw_hash)
           THEN /\ users' = [users EXCEPT ![i].psw_hash = HashPassword(psw.new_psw)]
                /\ resp' = [Resp("change_psw", TRUE, 200, "Success") EXCEPT
                                !.sent = TRUE, !.uname = psw.uname]
           ELSE /\ resp' = [BadRequest("change_psw", "Failed Auth") EXCEPT !.sent = TRUE]
                /\ users' = users
       /\ UNCHANGED <<mail, now, admin, perm, jobs>>

----------------------------------------------------------------------------
(* A new blog: POST api/blogs *)

\* new of api::blog, with the CheckCan extractor (the blogs table is left out)
BlogNew(r) ==
    LET can == CheckCanFromRequest(r, admin, now) IN
    /\ req' = r
    /\ ext' = can
    /\ resp' = IF can.ok
               THEN [Resp("blog_new", TRUE, 200, "") EXCEPT !.sent = TRUE,
                                                              !.uname = can.uname]
               ELSE Resp("blog_new", FALSE, 401, "Unauthorized")
    /\ UNCHANGED <<users, mail, now, admin, perm, jobs>>

----------------------------------------------------------------------------
(* Signed-up accounts at work: SpecProfile *)

\* accounts as signup, confirmation and the granting of permissions left
\* them: alice has confirmed her email, bob holds the EDIT bit alone, dave
\* the ADMIN bit alone, root is named like the admin; only alice has an email
StoredRow(id, uname, email, confirmed, permission) ==
    [RowOf([NewBuildUser(uname, HashPassword("Passw0rd1")) EXCEPT
                !.email = email, !.email_confirmed = confirmed,
                !.permission = permission], id)
     EXCEPT !.last_seen = StartTime]
StoredUsers ==
    <<StoredRow(1, "alice", "a@x.io", TRUE, BitOr(LIMIT_PERMIT, BASIC_PERMIT)),
      StoredRow(2, "bob", "", FALSE, EIDT_PERMIT),
      StoredRow(3, "dave", "", FALSE, ADMIN_PERMIT),
      StoredRow(4, "root", "", FALSE, BitOr(LIMIT_PERMIT, BASIC_PERMIT))>>

InitProfile ==
    /\ users = StoredUsers
    /\ mail = {}
    /\ now = StartTime
    /\ resp = NoResp
    /\ req = NoReq
    /\ admin \in AdminNames
    /\ ext = NoExt
    /\ perm = NoPerm
    /\ jobs = NoJobs

\* a session of an account whose row is gone from storage
ErinSession == EncodeToken(ViewOf(9, "erin", 3), StartTime, StartTime)

\* a request that carries a session token in its authorization header
WithSession(k) == [NoReq EXCEPT !.hdr = Some(k)]
\* the requests to new: no session, the session of a stored account, the
\* session of an account that is not stored
BlogRequests == AuthRequests \cup {WithSession(ErinSession)}
\* the requests to update and change_psw: those of alice, bob and erin
ProfileRequests ==
    {NoReq, WithSession(ErinSession)} \cup
    {WithSession(EncodeToken(CheckUserFromUser(users[i]), now, now)) : i \in {1, 2}}

\* names and passwords sent to signin: "al" and "short" fail the length test
SigninNames == {"alice", "bob", "dave", "root", "erin", "al"}
SigninPsws == {B64("Passw0rd1"), B64("Passw0rd2"), B64("short")}

\* the updates of SpecProfile: alice changes her email and nickname, bob his
\* nickname; "bad" is no address, "n!" no nickname
ProfileInputs ==
    [uname : {"alice"}, avatar : {""}, email : Emails \cup {"bad"}, intro : {""},
     location : {""}, nickname : {"", "nick"}]
    \cup [uname : {"bob"}, avatar : {""}, email : {""}, intro : {""},
          location : {""}, nickname : {"", "nick", "n!"}]
\* the targets and passwords of change_psw
TargetNames == {"alice", "erin"}
ChangePswInputs == {B64("Passw0rd1"), B64("Passw0rd2"), B64("short")}

NextProfile ==
    \/ \E u \in SigninNames, p \in SigninPsws : Signin(u, p)
    \/ \E r \in ProfileRequests, up \in ProfileInputs : Update(r, up, TRUE)
    \/ \E r \in ProfileRequests, u \in TargetNames, o \in ChangePswInputs,
          n \in ChangePswInputs : ChangePsw(r, u, o, n)
    \/ \E u \in {"alice", "bob"} : ResetReq(u, TRUE)
    \/ \E k \in TokenInputs, p \in ResetPswInputs : ResetPsw(k, p)
    \/ \E k \in TokenInputs : ConfirmEmail(k)
    \/ \E r \in BlogRequests : BlogNew(r)

SpecProfile == InitProfile /\ [][NextProfile]_vars

\* C11: a view is reported elevated exactly when its username is the
\* configured admin name or its EDIT bit is set, so one with the EDIT bit alone
\* is elevated and one with the ADMIN bit alone and another name is not; signin,
\* the profile update and the Elevated extractor report it alike.
C11_Elevation ==
    /\ (resp.op \in {"signin", "update"} /\ resp.ok) =>
          resp.omg = (resp.user.uname = admin \/ Bit(resp.user.permission, 2) = 1)
    /\ resp.op = "blog_new" =>
          LET view == IF req.hdr.some THEN req.hdr.tok.claims
                      ELSE [uname |-> "", permission |-> 0]
          IN  /\ ext.ok = (view.uname = admin \/ Bit(view.permission, 2) = 1)
              /\ resp.ok = ext.ok

\* bob, who holds the EDIT bit alone, signed in and is reported elevated
C11_Witness ==
    /\ resp.op = "signin"
    /\ resp.ok
    /\ resp.user.permission = 4
    /\ resp.user.uname # admin
    /\ resp.omg

----------------------------------------------------------------------------
(* Claims on signup *)

\* what signup makes of its input
RegOf(u, e, p) == [uname |-> u, email |-> e, password |-> De64Str(p)]

\* C12: a signup that passes validation and whose username is the name of a
\* stored account fails with BadRequest "Duplicated Username", changes no
\* account, inserts none and dispatches no confirmation email.
C12_DuplicateSignup ==
    [][\A u \in SignupNames, e \in EmailInputs, p \in SignupPswInputs, s \in BOOLEAN :
          (/\ Signup(u, e, p, s)
           /\ RegUserValidate(RegOf(u, e, p))
           /\ \E i \in 1 .. Len(users) : users[i].uname = Trim(u))
          => /\ resp'.status = 400
             /\ resp'.msg = "Duplicated Username"
             /\ users' = users
             /\ mail' = mail]_vars

\* signups and the changes of email that precede them, without the resets:
\* SpecSignup
NextSignup ==
    \/ \E u \in SignupNames, e \in EmailInputs, p \in SignupPswInputs, s \in BOOLEAN :
          Signup(u, e, p, s)
    \/ \E r \in AuthRequests, up \in UpdateInputs, s \in BOOLEAN : Update(r, up, s)
    \/ \E k \in TokenInputs : ConfirmEmail(k)
    \/ Tick

SpecSignup == Init /\ [][NextSignup]_vars

\* the unused names: no stored account is named like the trimmed input
Unused(u) == \A i \in 1 .. Len(users) : users[i].uname # Trim(u)
\* the emails signup adopts: well-formed and on no stored account
Adopted(e) == ReTestEmail(Trim(e)) /\ \A i \in 1 .. Len(users) : users[i].email # Trim(e)
\* the account a signup stores
Created(u, e, p) ==
    [id |-> Len(users) + 1, uname |-> Trim(u), psw_hash |-> [bcrypt |-> De64Str(p)],
     last_seen |-> 0, avatar |-> "", email |-> e, link |-> "", intro |-> "", location |-> "",
     nickname |-> "", permission |-> 3, auth_from |-> "", email_confirmed |-> FALSE]
\* the confirmation message of a signup
Confirmation(u, e) ==
    [purpose |-> "confirm", to |-> Trim(e), uname |-> Trim(u),
     tok |-> JwtEncode([exp |-> now + 2880 * 60, uname |-> Trim(u),
                        email |-> Trim(e)], Secret),
     at |-> now, ttl |-> 2880, view |-> DefaultCheckUser]

----------------------------------------------------------------------------
(* Signup and profile update on the worker pool: SpecConc *)

\* the workers SyncArbiter::start gave to Dba
Workers == 1 .. NumWorkers

\* the inserts the workers hold
PendingInserts == {w \in Workers : jobs[w].kind = "reg"}

\* RegUser::register up to the insert: the two lookups, the hash, the email
RegLookup(w, uname_in, email_in, psw_in, send_ok) ==
    LET reg == RegOf(uname_in, email_in, psw_in)
        check_user == WhereUname(users, reg.uname)
        unm == Trim(reg.uname)
        new_user == NewBuildUser(unm, HashPassword(reg.password))
        user_email == Trim(reg.email)
        use_email == ReTestEmail(user_email) /\ WhereEmail(users, user_email) = {}
        newUser == IF use_email THEN [new_user EXCEPT !.email = user_email] ELSE new_user
        tok == GenerateToken(unm, user_email, ConfirmTtl, now)
        sent_mail == mail \cup {Mail("confirm", user_email, unm, tok, ConfirmTtl)}
    IN  /\ jobs[w] = Idle
        /\ Len(users) + Cardinality(PendingInserts) < MaxUsers
        /\ IF ~RegUserValidate(reg)
           THEN /\ resp' = BadRequest("signup", "Invalid username or password")
                /\ UNCHANGED <<mail, jobs>>
           ELSE IF check_user # {}
           THEN /\ resp' = [BadRequest("signup", "Duplicated Username") EXCEPT !.sent = TRUE]
                /\ UNCHANGED <<mail, jobs>>
           ELSE IF use_email /\ ~send_ok
           THEN /\ resp' = StorageError("signup", TRUE)
                /\ UNCHANGED <<mail, jobs>>
           ELSE /\ mail' = IF use_email THEN sent_mail ELSE mail
                /\ jobs' = [jobs EXCEPT ![w] = [kind |-> "reg", id |-> 0, row |-> newUser]]
                /\ resp' = resp
        /\ Cardinality(mail') <= MaxMail
        /\ UNCHANGED <<users, now, req, admin, ext, perm>>

\* a faulty variant of the insert: an insert that is refused is answered like
\* a username that the lookup found
RegWriteDuplicated(w) ==
    /\ jobs[w].kind = "reg"
    /\ jobs' = [jobs EXCEPT ![w] = Idle]
    /\ IF InsertAllowed(users, jobs[w].row)
       THEN /\ users' = Append(users, RowOf(jobs[w].row, Len(users) + 1))
            /\ resp' = [Resp("signup", TRUE, 201, "Success") EXCEPT
                            !.sent = TRUE, !.uname = jobs[w].row.uname]
       ELSE /\ users' = users
            /\ resp' = [BadRequest("signup", "Duplicated Username") EXCEPT !.sent = TRUE]
    /\ UNCHANGED <<mail, now, req, admin, ext, perm>>
\* RegUser::register from the insert on
RegWrite(w) ==
    /\ jobs[w].kind = "reg"
    /\ jobs' = [jobs EXCEPT ![w] = Idle]
    /\ IF InsertAllowed(users, jobs[w].row)
       THEN /\ users' = Append(users, RowOf(jobs[w].row, Len(users) + 1))
            /\ resp' = [Resp("signup", TRUE, 201, "Success") EXCEPT
                            !.sent = TRUE, !.uname = jobs[w].row.uname]
       ELSE /\ users' = users
            /\ resp' = StorageError("signup", TRUE)
    /\ UNCHANGED <<mail, now, req, admin, ext, perm>>

\* update and UpdateUser::update up to the write: the extractor, the
\* validation, the two lookups, the email
UpdLookup(w, r, up, send_ok) ==
    LET auth == CheckUserFromRequest(r, now)
        new_user_email == Trim(up.email)
        unm == Trim(up.uname)
        rows == WhereUname(users, unm)
        i == FirstOf(rows)
        old_user == users[i]
        old_user_email == Trim(old_user.email)
        check_changed == CheckChanged(up, old_user)
        other_email == ReTestEmail(new_user_email) /\ new_user_email # old_user_email
        check_dup_email == WhereEmail(users, new_user_email) # {}
        adopt == other_email /\ ~check_dup_email
        up_user == IF adopt THEN up ELSE [up EXCEPT !.email = old_user_email]
        tok == GenerateToken(unm, new_user_email, ConfirmTtl, now)
    IN  /\ jobs[w] = Idle
        /\ req' = r
        /\ ext' = auth
        /\ IF ~auth.ok \/ auth.uname # up.uname
           THEN /\ resp' = Resp("update", FALSE, 401, "Unauthorized")
                /\ UNCHANGED <<mail, jobs>>
           ELSE IF ~UpdateUserValidate(up)
           THEN /\ resp' = BadRequest("update", "Invalid Input")
                /\ UNCHANGED <<mail, jobs>>
           ELSE IF rows = {}
           THEN /\ resp' = StorageError("update", TRUE)
                /\ UNCHANGED <<mail, jobs>>
           ELSE IF ~check_changed /\ new_user_email = old_user_email
           THEN /\ resp' = [BadRequest("update", "Nothing Changed") EXCEPT !.sent = TRUE]
                /\ UNCHANGED <<mail, jobs>>
           ELSE IF other_email /\ check_dup_email /\ ~check_changed
           THEN /\ resp' = [BadRequest("update", "Nothing Changed") EXCEPT !.sent = TRUE]
                /\ UNCHANGED <<mail, jobs>>
           ELSE IF adopt /\ ~send_ok
           THEN /\ resp' = StorageError("update", TRUE)
                /\ UNCHANGED <<mail, jobs>>
           ELSE /\ mail' = IF adopt
                           THEN mail \cup {Mail("confirm", new_user_email, unm, tok, ConfirmTtl)}
                           ELSE mail
                /\ jobs' = [jobs EXCEPT ![w] = [kind |-> "upd", id |-> i, row |-> up_user]]
                /\ resp' = resp
        /\ Cardinality(mail') <= MaxMail
        /\ UNCHANGED <<users, now, admin, perm>>

\* UpdateUser::update from the write on, and the response of update
UpdWrite(w) ==
    LET update_user == ApplyChangeset(users[jobs[w].id], jobs[w].row)
        user == CheckUserFromUser(update_user)
    IN  /\ jobs[w].kind = "upd"
        /\ jobs' = [jobs EXCEPT ![w] = Idle]
        /\ users' = [users EXCEPT ![jobs[w].id] = update_user]
        /\ resp' = [Resp("update", TRUE, 200, "Success") EXCEPT
                        !.sent = TRUE, !.uname = user.uname, !.user = user,
                        !.tok = EncodeToken(user, now, now),
                        !.omg = (user.uname = admin
                                 \/ CheckUserCan(user.permission, EIDT_PERMIT))]
        /\ UNCHANGED <<mail, now, req, admin, ext, perm>>

\* the signups and updates of SpecConc
ConcNames == {"alice", "bob", "alice "}
ConcUpdates ==
    [uname : UNames, avatar : {""}, email : Emails, intro : {""}, location : {""},
     nickname : {""}]

NextConc ==
    \/ \E w \in Workers, u \in ConcNames, e \in Emails, s \in BOOLEAN :
          RegLookup(w, u, e, B64("Passw0rd1"), s)
    \/ \E w \in Workers : RegWrite(w)
    \/ \E w \in Workers, r \in AuthRequests, up \in ConcUpdates, s \in BOOLEAN :
          UpdLookup(w, r, up, s)
    \/ \E w \in Workers : UpdWrite(w)

SpecConc == Init /\ [][NextConc]_vars

----------------------------------------------------------------------------
(* Signin, profile update and change of password: SpecAuth *)

NextAuth ==
    \/ \E u \in SigninNames, p \in SigninPsws : Signin(u, p)
    \/ \E r \in ProfileRequests, up \in ProfileInputs : Update(r, up, TRUE)
    \/ \E r \in ProfileRequests, u \in TargetNames, o \in ChangePswInputs,
          n \in ChangePswInputs : ChangePsw(r, u, o, n)

SpecAuth == InitProfile /\ [][NextAuth]_vars

\* what signin makes of its input
AuthOf(u, p) == [uname |-> u, password |-> De64Str(p)]
\* the stored accounts named like the trimmed input
Named(u) == {i \in 1 .. Len(users) : users[i].uname = Trim(u)}
\* the response of a signin that failed on the account or on the password
AuthFailed ==
    [NoResp EXCEPT !.op = "signin", !.status = 400, !.msg = "Auth Failed", !.sent = TRUE]

\* C15: a signin that passes the length validation gets one and the same
\* response, BadRequest "Auth Failed", when no account has the username and
\* when the account exists and the password is wrong.
C15_SigninNoLeak ==
    [][\A u \in SigninNames, p \in SigninPsws :
          (/\ Signin(u, p)
           /\ AuthUserValidate(AuthOf(u, p))
           /\ \/ Named(u) = {}
              \/ \E i \in Named(u) : users[i].psw_hash # [bcrypt |-> De64Str(p)])
          => resp' = AuthFailed /\ users' = users]_vars

\* a signin failed with "Auth Failed" while alice's password was another one
\* than at the start
C15_Witness ==
    /\ resp = AuthFailed
    /\ users[1].psw_hash = [bcrypt |-> "Passw0rd2"]

\* the request is authenticated as the target of the input
AuthenticatedAs(r, uname) ==
    /\ r.hdr.some
    /\ r.hdr.tok.key = Secret
    /\ r.hdr.tok.claims.exp >= now
    /\ r.hdr.tok.claims.uname = uname
\* the response of an update that changes nothing
NothingChanged ==
    [NoResp EXCEPT !.op = "update", !.status = 400, !.msg = "Nothing Changed",
                   !.sent = TRUE]

\* C16: an authenticated profile update whose avatar, intro, location, nickname
\* and email all equal the stored ones fails with BadRequest "Nothing Changed",
\* writes nothing to storage, dispatches no email and issues no session token.
C16_NothingChanged ==
    [][\A r \in ProfileRequests, up \in ProfileInputs :
          (/\ Update(r, up, TRUE)
           /\ AuthenticatedAs(r, up.uname)
           /\ \E i \in 1 .. Len(users) :
                 /\ users[i].uname = up.uname
                 /\ users[i].avatar = up.avatar
                 /\ users[i].intro = up.intro
                 /\ users[i].location = up.location
                 /\ users[i].nickname = up.nickname
                 /\ users[i].email = up.email)
          => /\ resp' = NothingChanged
             /\ resp'.tok = JunkToken
             /\ users' = users
             /\ mail' = mail]_vars

\* alice sent again the nickname and the email she had set before
C16_Witness ==
    /\ resp = NothingChanged
    /\ req.hdr.some
    /\ req.hdr.tok.claims.uname = "alice"
    /\ users[1].nickname = "nick"
    /\ users[1].email = "b@x.io"

----------------------------------------------------------------------------
(* Claims on the email of an account *)

\* the confirmation message of a profile update
UpdateConfirmation(up) ==
    [purpose |-> "confirm", to |-> up.email, uname |-> up.uname,
     tok |-> JwtEncode([exp |-> now + 2880 * 60, uname |-> up.uname,
                        email |-> up.email], Secret),
     at |-> now, ttl |-> 2880, view |-> DefaultCheckUser]

\* C17: an authenticated profile update with an email that differs from the
\* stored one, is well-formed and is on no other account makes the account
\* adopt the email, dispatches a confirmation token for the username and the
\* new email, and leaves the account unconfirmed, also when the previous
\* email had been confirmed.
C17_NewEmailUnconfirmed ==
    [][\A r \in AuthRequests, up \in UpdateInputs :
          \A i \in 1 .. Len(users) :
              (/\ Update(r, up, TRUE)
               /\ AuthenticatedAs(r, up.uname)
               /\ users[i].uname = up.uname
               /\ up.email # users[i].email
               /\ ReTestEmail(up.email)
               /\ \A j \in 1 .. Len(users) : users[j].email # up.email)
              => /\ users'[i].email = up.email
                 /\ UpdateConfirmation(up) \in mail'
                 /\ ~users'[i].email_confirmed]_vars

----------------------------------------------------------------------------
(* Claims on the ownership of an account *)

\* the response to a request that is not authenticated as its target
NotOwner(op) == [NoResp EXCEPT !.op = op, !.status = 401, !.msg = "Unauthorized"]
\* the accounts other than the one a request is authenticated as are as before
OthersKept(r) ==
    \A i \in 1 .. Len(users) :
        (r.hdr.some /\ users[i].uname = r.hdr.tok.claims.uname) \/ users'[i] = users[i]

\* C18: a profile update or a change of password whose authenticated username
\* is not the target username of the input is answered Unauthorized and sends
\* nothing to storage; whatever the request, no stored field of an account
\* other than the authenticated one changes.
C18_CrossAccount ==
    [][/\ \A r \in ProfileRequests, up \in ProfileInputs :
             Update(r, up, TRUE) =>
                /\ OthersKept(r)
                /\ Len(users') = Len(users)
                /\ ~AuthenticatedAs(r, up.uname) =>
                      (resp' = NotOwner("update") /\ users' = users /\ mail' = mail)
       /\ \A r \in ProfileRequests, u \in TargetNames, o \in ChangePswInputs,
             n \in ChangePswInputs :
             ChangePsw(r, u, o, n) =>
                /\ OthersKept(r)
                /\ Len(users') = Len(users)
                /\ ~AuthenticatedAs(r, u) =>
                      (resp' = NotOwner("change_psw") /\ users' = users /\ mail' = mail)
      ]_vars

\* bob, with his own session, asked for a change of alice's password and
\* gave her password
C18_Witness ==
    /\ resp = NotOwner("change_psw")
    /\ req.hdr.some
    /\ req.hdr.tok.claims.uname = "bob"
    /\ ext.ok
    /\ ext.uname = "bob"
    /\ users[1].uname = "alice"

\* the input of change_psw after the transport decoding
PswOf(u, o, n) == [old_psw |-> De64Str(o), new_psw |-> De64Str(n), uname |-> u]
\* the stored accounts named exactly like the input
NamedAs(u) == {i \in 1 .. Len(users) : users[i].uname = u}
\* the responses of the change_psw handler
ChangeFailed(msg) ==
    [NoResp EXCEPT !.op = "change_psw", !.status = 400, !.msg = msg, !.sent = TRUE]

\* C19: a change of password by the owner with a well-formed new password:
\* with no such account the answer is BadRequest "Not Existing"; with an old
\* password that does not verify it is BadRequest "Failed Auth" and the hash
\* is unchanged; with one that verifies the stored hash is replaced by one that
\* verifies the new password and (when different) not the old one; and a
\* well-formed signin to an existing account succeeds exactly when its
\* password verifies against the stored hash.
C19_ChangePassword ==
    [][/\ \A r \in ProfileRequests, u \in TargetNames, o \in ChangePswInputs,
             n \in ChangePswInputs :
             (/\ ChangePsw(r, u, o, n)
              /\ AuthenticatedAs(r, u)
              /\ ChangePswValidate(PswOf(u, o, n)))
             => /\ NamedAs(u) = {} => (resp' = ChangeFailed("Not Existing") /\ users' = users)
                /\ \A i \in NamedAs(u) :
                      IF Verify(De64Str(o), users[i].psw_hash)
                      THEN /\ resp'.status = 200
                           /\ resp'.msg = "Success"
                           /\ Verify(De64Str(n), users'[i].psw_hash)
                           /\ De64Str(n) # De64Str(o) => ~Verify(De64Str(o), users'[i].psw_hash)
                           /\ users' = [users EXCEPT ![i].psw_hash = users'[i].psw_hash]
                      ELSE resp' = ChangeFailed("Failed Auth") /\ users' = users
       /\ \A u \in SigninNames, p \in SigninPsws :
             (/\ Signin(u, p)
              /\ AuthUserValidate(AuthOf(u, p)))
             => \A i \in Named(u) :
                   (resp'.status = 200) <=> Verify(De64Str(p), users[i].psw_hash)
      ]_vars

\* alice changed her password and then signed in with the new one
C19_Witness ==
    /\ resp.op = "signin"
    /\ resp.status = 200
    /\ resp.uname = "alice"
    /\ users[1].uname = "alice"
    /\ users[1].psw_hash = [bcrypt |-> "Passw0rd2"]

----------------------------------------------------------------------------
(* Reset of the password of an account whose email changes *)

\* tokens signed with the secret that name no stored account: one of an
\* account that is gone, one whose username is not well-formed
ErinReset == GenerateToken("erin", "a@x.io", ResetTtl, StartTime)
OddReset == GenerateToken("n!", "a@x.io", ResetTtl, StartTime)
\* the usernames a client sends to reset phase 1: alice has an email, bob has
\* none, erin has no account, "n!" is no username
ResetNames == {"alice", "bob", "erin", "n!"}
\* the tokens a client sends to reset phase 2
ResetTokenInputs == TokenInputs \cup {B64(ErinReset), B64(OddReset)}

\* the requests of the reset: both phases, the profile update, and time
NextReset ==
    \/ \E u \in ResetNames, s \in BOOLEAN : ResetReq(u, s)
    \/ \E r \in ProfileRequests, up \in ProfileInputs : Update(r, up, TRUE)
    \/ \E k \in ResetTokenInputs, p \in ResetPswInputs : ResetPsw(k, p)
    \/ Tick

SpecReset == InitProfile /\ [][NextReset]_vars

\* the token decodes: it is signed with the secret and has not expired
ValidToken(tok) == JwtDecodeOk(tok, Secret, TokClaimFields, now)
\* the stored accounts the token names whose email is not the token's
StaleFor(tok) ==
    {i \in 1 .. Len(users) :
        users[i].uname = tok.claims.uname /\ users[i].email # tok.claims.email}

\* C20: reset phase 2 with a well-formed new password and a token that is
\* signed with the secret and unexpired, but whose email is not the current
\* email of the account it names, is answered BadRequest "Auth Failed" and
\* leaves every stored account, the password hash included, as it was.
C20_StaleEmailRejected ==
    [][\A k \in ResetTokenInputs, p \in ResetPswInputs :
          (/\ ResetPsw(k, p)
           /\ ReTestPsw(De64Str(p))
           /\ ValidToken(De64Tok(k))
           /\ StaleFor(De64Tok(k)) # {})
          => /\ resp'.status = 400
             /\ resp'.msg = "Auth Failed"
             /\ ~resp'.ok
             /\ users' = users]_vars

\* alice asked for a reset, changed her email, and then used the token
C20_Witness ==
    /\ resp.op = "reset_psw"
    /\ resp.msg = "Auth Failed"
    /\ resp.claim.uname = "alice"
    /\ resp.claim.email = "a@x.io"
    /\ resp.claim.exp >= now
    /\ \E m \in mail : m.purpose = "reset" /\ m.tok = resp.tok
    /\ users[1].uname = "alice"
    /\ users[1].email = "b@x.io"
    /\ users[1].psw_hash = [bcrypt |-> "Passw0rd1"]

\* reset phase 2 refuses the token or the password before it asks the storage
ResetRefused(tok, psw) ==
    \/ ~ValidToken(tok)
    \/ tok.claims.exp < now
    \/ ~ReTestName(tok.claims.uname)
    \/ ~ReTestPsw(psw)
\* the stored accounts the token names, and those among them with its email
NamedBy(tok) == {i \in 1 .. Len(users) : users[i].uname = tok.claims.uname}
MatchedBy(tok) == {i \in NamedBy(tok) : users[i].email = tok.claims.email}

\* C21: reset phase 2 answers BadRequest, asks nothing of the storage and
\* changes no account when the token does not decode (forged, malformed,
\* expired), its expiry is past, its username is not well-formed or the new
\* password fails the format; it stores a password only when none of these is
\* the case and the email of the token is the stored one, and then only the
\* hash of that account changes; with no account of that name it answers
\* BadRequest "Not Existing".
C21_ResetChecks ==
    [][\A k \in ResetTokenInputs, p \in ResetPswInputs :
          ResetPsw(k, p) =>
             LET tok == De64Tok(k)
                 psw == De64Str(p)
             IN  /\ ResetRefused(tok, psw) =>
                       /\ resp'.status = 400
                       /\ ~resp'.sent
                       /\ users' = users
                 /\ (resp'.ok \/ users' # users) =>
                       /\ ~ResetRefused(tok, psw)
                       /\ \E i \in MatchedBy(tok) :
                             users' = [users EXCEPT ![i].psw_hash = [bcrypt |-> psw]]
                 /\ (~ResetRefused(tok, psw) /\ NamedBy(tok) = {}) =>
                       /\ resp'.status = 400
                       /\ resp'.msg = "Not Existing"
                       /\ users' = users]_vars

\* a reset token that alice was mailed is used after it expired
C21_Witness ==
    /\ resp.op = "reset_psw"
    /\ resp.status = 400
    /\ ~resp.sent
    /\ resp.claim = SentinelClaim
    /\ \E m \in mail : /\ m.purpose = "reset"
                       /\ m.tok = resp.tok
                       /\ m.uname = "alice"
                       /\ m.tok.claims.exp < now

----------------------------------------------------------------------------
(* Confirmation of the email of a new account *)

\* the signups of SpecConfirm: two names, the two addresses, one password
ConfirmSignups == {<<u, e>> : u \in UNames, e \in Emails}

\* signup, change of email, confirmation, and time
NextConfirm ==
    \/ \E s \in ConfirmSignups : Signup(s[1], s[2], B64("Passw0rd1"), TRUE)
    \/ \E r \in AuthRequests, up \in UpdateInputs : Update(r, up, TRUE)
    \/ \E k \in ResetTokenInputs : ConfirmEmail(k)
    \/ Tick

SpecConfirm == Init /\ [][NextConfirm]_vars

\* the token confirms: it decodes (its expiry is not past: the second of the
\* expiry counts as not past, see C7) and an account has its name and email
Confirms(tok) == ValidToken(tok) /\ tok.claims.exp >= now /\ MatchedBy(tok) # {}

C23_ConfirmTwice ==
    [][\A k \in ResetTokenInputs :
          (/\ ConfirmEmail(k)
           /\ resp.op = "confirm"
           /\ resp.ok
           /\ resp.tok = De64Tok(k))
          => /\ resp'.ok
             /\ resp'.status = resp.status
             /\ resp'.msg = resp.msg
             /\ resp'.uname = resp.uname
             /\ users' = users
             /\ mail' = mail
             /\ \A i \in MatchedBy(De64Tok(k)) : users'[i].email_confirmed]_vars

\* the one token that was mailed confirmed an account that was confirmed
\* already
C23_Witness ==
    /\ resp.op = "confirm"
    /\ resp.ok
    /\ resp.was
    /\ Cardinality(mail) = 1
    /\ \E m \in mail : m.tok = resp.tok /\ m.purpose = "confirm"
    /\ \E i \in 1 .. Len(users) :
          /\ users[i].uname = resp.claim.uname
          /\ users[i].email = resp.claim.email
          /\ users[i].email_confirmed

----------------------------------------------------------------------------
(* Claims on reset phase 1 *)

\* the reset message for an account: a token for its name and email that
\* expires 120 minutes from now
ResetMailFor(u, e) ==
    [purpose |-> "reset", to |-> e, uname |-> u,
     tok |-> JwtEncode([exp |-> now + 120 * 60, uname |-> u, email |-> e], Secret),
     at |-> now, ttl |-> 120, view |-> DefaultCheckUser]
\* the stored accounts of that name whose email is well-formed
Reachable(u) == {i \in NamedAs(u) : ReTestEmail(users[i].email)}

\* C24: reset phase 1 changes no account; for a well-formed username it
\* hands a reset token to the email collaborator exactly when an account has
\* that name and a well-formed stored email, and the token is for that name and
\* email and expires 120 minutes from now (when the collaborator fails nothing
\* is mailed and an error is returned); with a stored email that is empty or
\* malformed it answers BadRequest and mails nothing.
C24_ResetRequest ==
    [][\A u \in ResetNames, s \in BOOLEAN :
          ResetReq(u, s) =>
             /\ users' = users
             /\ ~ReTestName(u) => (resp'.status = 400 /\ mail' = mail)
             /\ ReTestName(u) =>
                   /\ (s /\ Reachable(u) # {}) <=> resp'.ok
                   /\ resp'.ok =>
                         \E i \in Reachable(u) :
                             mail' = mail \cup {ResetMailFor(u, users[i].email)}
                   /\ ~resp'.ok => mail' = mail
                   /\ (NamedAs(u) # {} /\ Reachable(u) = {}) => resp'.status = 400
                   /\ (~s /\ Reachable(u) # {}) => resp'.status = 500]_vars

\* alice asked for a reset and was mailed a token for her stored email
C24_Witness ==
    /\ resp.op = "reset_req"
    /\ resp.ok
    /\ resp.uname = "alice"
    /\ \E i \in 1 .. Len(users) :
          /\ users[i].uname = "alice"
          /\ ResetMailFor("alice", users[i].email) \in mail

----------------------------------------------------------------------------
(* Signin as time passes *)

\* signin, the change of password, and time
NextSignin ==
    \/ \E u \in SigninNames, p \in SigninPsws : Signin(u, p)
    \/ \E r \in ProfileRequests, u \in TargetNames, o \in ChangePswInputs,
          n \in ChangePswInputs : ChangePsw(r, u, o, n)
    \/ Tick

SpecSignin == InitProfile /\ [][NextSignin]_vars

\* the stored accounts a signin is let in to: the input passes the length
\* validation, the account has the trimmed name and the password verifies
LetIn(u, p) ==
    {i \in Named(u) : /\ AuthUserValidate(AuthOf(u, p))
                      /\ Verify(De64Str(p), users[i].psw_hash)}

\* C25: a signin that succeeds changes last_seen of its account and nothing
\* else, and returns exp 5 and a session token that decodes to the id, the
\* username and the permission of that account; a signin that fails on the
\* validation, the account or the password changes no account and returns no
\* token.
C25_SigninFrame ==
    [][\A u \in SigninNames, p \in SigninPsws :
          Signin(u, p) =>
             /\ resp'.ok <=> LetIn(u, p) # {}
             /\ resp'.ok =>
                   \E i \in LetIn(u, p) :
                       LET seen == DecodeToken(resp'.tok, now) IN
                       /\ users' = [users EXCEPT ![i].last_seen = now]
                       /\ resp'.status = 200
                       /\ resp'.exp = 5
                       /\ seen.ok
                       /\ seen.user.id = users[i].id
                       /\ seen.user.uname = users[i].uname
                       /\ seen.user.permission = users[i].permission
             /\ ~resp'.ok =>
                   /\ users' = users
                   /\ resp'.status = 400
                   /\ resp'.tok = JunkToken
                   /\ resp'.exp = 0]_vars

\* bob signed in after time passed: his last_seen is now, that of alice is not
C25_Witness ==
    /\ resp.op = "signin"
    /\ resp.ok
    /\ resp.exp = 5
    /\ resp.uname = "bob"
    /\ now > StartTime
    /\ users[2].uname = "bob"
    /\ users[2].last_seen = now
    /\ users[1].last_seen = StartTime

----------------------------------------------------------------------------
(* Profile updates that ask for the email of another account *)

\* the updates of SpecDup: an email and a nickname
DupInputs ==
    [uname : UNames, avatar : {""}, email : Emails, intro : {""},
     location : {""}, nickname : {"", "nick"}]

\* the signups of SpecDup: with an email or, with "bad", with none
DupSignups == {<<u, e>> : u \in UNames, e \in EmailInputs}

\* signups and profile updates
NextDup ==
    \/ \E s \in DupSignups : Signup(s[1], s[2], B64("Passw0rd1"), TRUE)
    \/ \E r \in AuthRequests, up \in DupInputs : Update(r, up, TRUE)

SpecDup == Init /\ [][NextDup]_vars

\* the email is held by an account other than the i-th
HeldByOther(tbl, i, e) == \E j \in 1 .. Len(tbl) : j # i /\ tbl[j].email = e
\* no two accounts hold the same email, the empty one apart
EmailsDistinct(tbl) ==
    \A i \in 1 .. Len(tbl) : tbl[i].email = "" \/ ~HeldByOther(tbl, i, tbl[i].email)

\* C26: a profile update that asks for an email held by another account fails
\* with "Nothing Changed" and writes nothing when no other field differs; when
\* another field differs it stores the other fields, keeps the old email and
\* mails no confirmation; and no update makes two accounts hold one email.
C26_DuplicateEmail ==
    [][\A r \in AuthRequests, up \in DupInputs :
          (/\ Update(r, up, TRUE)
           /\ AuthenticatedAs(r, up.uname))
          => /\ EmailsDistinct(users) => EmailsDistinct(users')
             /\ \A i \in NamedAs(up.uname) :
                   (up.email # users[i].email /\ HeldByOther(users, i, up.email)) =>
                      /\ mail' = mail
                      /\ IF up.nickname = users[i].nickname
                         THEN /\ resp'.status = 400
                              /\ resp'.msg = "Nothing Changed"
                              /\ resp'.tok = JunkToken
                              /\ users' = users
                         ELSE /\ resp'.ok
                              /\ resp'.user.email = users[i].email
                              /\ users' = [users EXCEPT ![i].nickname = up.nickname]]_vars

\* an update asked for the email of the other account and for a nickname: the
\* nickname is stored and the email is the old one
C26_Witness ==
    /\ resp.op = "update"
    /\ resp.ok
    /\ resp.dup # ""
    /\ \E i \in 1 .. Len(users) :
          /\ users[i].uname = resp.uname
          /\ users[i].nickname = "nick"
          /\ users[i].email # resp.dup
          /\ HeldByOther(users, i, resp.dup)

\* the answer of reset phase 1 when the token was sent
TokenSent(u) ==
    [NoResp EXCEPT !.op = "reset_req", !.ok = TRUE, !.status = 200,
                   !.msg = "The token has been sent to you via email",
                   !.sent = TRUE, !.uname = u]

\* C27: reset phase 1, for a well-formed username and a collaborator that
\* sends, answers an account that does not exist with the error of the failed
\* lookup and an account with a well-formed email with the message that the
\* token was sent: the two answers differ, so the answer tells whether the
\* account exists.
C27_ResetReveals ==
    [][\A u \in ResetNames :
          (ResetReq(u, TRUE) /\ ReTestName(u)) =>
             /\ NamedAs(u) = {} =>
                   /\ ~resp'.ok
                   /\ resp'.status = 500
                   /\ resp'.sent
                   /\ resp' # TokenSent(u)
             /\ Reachable(u) # {} => resp' = TokenSent(u)]_vars

\* erin, who has no account, asked for a reset: the lookup failed
C27_Witness ==
    /\ resp.op = "reset_req"
    /\ resp.status = 500
    /\ resp.uname = "erin"
    /\ ~resp.ok
    /\ \A i \in 1 .. Len(users) : users[i].uname # "erin"

----------------------------------------------------------------------------
(* Validation and storage *)

\* the inputs of SpecValid: for each handler some that pass its validation and
\* some that fail it ("x" and "n!" are no usernames, "al" is too short, a
\* password that was not encoded decodes to "")
ValidSignups == {<<u, p>> : u \in {"alice", "x"}, p \in SignupPswInputs}
ValidSignins == {<<u, p>> : u \in {"alice", "al"}, p \in {B64("Passw0rd1"), B64("short")}}
ValidUpdates ==
    [uname : {"alice"}, avatar : {"", "bad"}, email : {"a@x.io"}, intro : {""},
     location : {""}, nickname : {"nick", "n!"}]
ValidChanges == {B64("Passw0rd2"), B64("short"), Raw("Passw0rd2")}
ValidResets == {"alice", "n!"}

\* the six handlers that validate their input
NextValid ==
    \/ \E s \in ValidSignups : Signup(s[1], "a@x.io", s[2], TRUE)
    \/ \E s \in ValidSignins : Signin(s[1], s[2])
    \/ \E r \in AuthRequests, up \in ValidUpdates : Update(r, up, TRUE)
    \/ \E r \in AuthRequests, n \in ValidChanges :
          ChangePsw(r, "alice", B64("Passw0rd1"), n)
    \/ \E u \in ValidResets : ResetReq(u, TRUE)
    \/ \E k \in ResetTokenInputs, p \in ResetPswInputs : ResetPsw(k, p)

SpecValid == Init /\ [][NextValid]_vars

\* the handler returned before it sent a message to a storage worker: no
\* account was read or written and nothing was mailed
Returned == ~resp'.sent /\ users' = users /\ mail' = mail
\* ... and what it returned is a BadRequest
Refused == resp'.status = 400 /\ ~resp'.ok /\ Returned

\* the formats that the validations test, on the inputs above
WellNamed(u) == u \in {"alice", "alice ", "bob", "nick", "root", "dave", "erin"}
WellKeyed(p) == p.b64 /\ p.val \in {"Passw0rd1", "Passw0rd2"}
LongEnough(u, p) == u # "al" /\ p.b64 /\ p.val # "short"

\* C28: when the validation of the input fails, signup, signin, the profile
\* update, the change of password and both phases of the reset answer
\* BadRequest without sending a message to a storage worker, so that no account
\* is read or written (a profile update or change of password that is not
\* authenticated as its target is refused before, as Unauthorized, and sends
\* none either).
C28_ValidationFirst ==
    [][/\ \A s \in ValidSignups :
             (Signup(s[1], "a@x.io", s[2], TRUE) /\ ~(WellNamed(s[1]) /\ WellKeyed(s[2])))
             => Refused
       /\ \A s \in ValidSignins :
             (Signin(s[1], s[2]) /\ ~LongEnough(s[1], s[2])) => Refused
       /\ \A r \in AuthRequests, up \in ValidUpdates :
             (Update(r, up, TRUE) /\ (up.nickname = "n!" \/ up.avatar = "bad"))
             => /\ Returned
                /\ AuthenticatedAs(r, up.uname) => Refused
       /\ \A r \in AuthRequests, n \in ValidChanges :
             (ChangePsw(r, "alice", B64("Passw0rd1"), n) /\ ~WellKeyed(n))
             => /\ Returned
                /\ AuthenticatedAs(r, "alice") => Refused
       /\ \A u \in ValidResets :
             (ResetReq(u, TRUE) /\ ~WellNamed(u)) => Refused
       /\ \A k \in ResetTokenInputs, p \in ResetPswInputs :
             (ResetPsw(k, p) /\ ~WellKeyed(p)) => Refused
      ]_vars

\* alice, with her session, asked for a new password that is too short
C28_Witness ==
    /\ resp.op = "change_psw"
    /\ resp.status = 400
    /\ resp.msg = "Invalid password"
    /\ ~resp.sent
    /\ ext.ok
    /\ ext.uname = "alice"
    /\ \E i \in 1 .. Len(users) : users[i].uname = "alice"

----------------------------------------------------------------------------
(* Signups of one username on two workers *)

\* no two accounts have the same username
UniqueNames(tbl) ==
    \A i, j \in 1 .. Len(tbl) : tbl[i].uname = tbl[j].uname => i = j
\* an account has the username
Taken(u) == \E i \in 1 .. Len(users) : users[i].uname = u

\* C29: the insert of a signup whose lookup found no account is made whatever
\* the other workers did since: when another worker inserted the username in
\* between, the unique index refuses the insert, no account is added, and the
\* request ends with a storage error, not with BadRequest "Duplicated
\* Username"; otherwise the account is added; so the usernames stay unique.
C29_RacingSignups ==
    [][\A w \in Workers :
          RegWrite(w) =>
             /\ UniqueNames(users) => UniqueNames(users')
             /\ IF Taken(jobs[w].row.uname)
                THEN /\ users' = users
                     /\ resp'.op = "signup"
                     /\ resp'.status = 500
                     /\ resp'.msg # "Duplicated Username"
                ELSE /\ Len(users') = Len(users) + 1
                     /\ users'[Len(users')].uname = jobs[w].row.uname
                     /\ resp'.status = 201]_vars

\* two workers looked up the same new username, found no account, and both
\* hold the insert
C29_Witness ==
    \E v, w \in Workers :
        /\ v # w
        /\ jobs[v].kind = "reg"
        /\ jobs[w].kind = "reg"
        /\ jobs[v].row.uname = jobs[w].row.uname
        /\ ~Taken(jobs[w].row.uname)

----------------------------------------------------------------------------
(* The permission of the accounts that signup creates *)

\* no account yet; the admin name is not set, or it is the name alice takes
InitPerm ==
    /\ users = <<>>
    /\ mail = {}
    /\ now = StartTime
    /\ resp = NoResp
    /\ req = NoReq
    /\ admin \in {"", "alice"}
    /\ ext = NoExt
    /\ perm = NoPerm
    /\ jobs = NoJobs

\* the inputs of SpecPerm: alice signs up with an email and bob without;
\* alice changes her email, bob his nickname, and a nickname is sent for
\* "alice "; the tokens are those mailed
PermSignups == {<<"alice", "a@x.io">>, <<"bob", "bad">>}
PermSignins == {<<"alice", B64("Passw0rd1")>>, <<"alice", B64("Passw0rd2")>>,
                <<"bob", B64("Passw0rd1")>>}
PermUpdates ==
    [uname : {"alice"}, avatar : {""}, email : {"b@x.io"}, intro : {""},
     location : {""}, nickname : {""}]
    \cup [uname : {"bob", "alice "}, avatar : {""}, email : {""}, intro : {""},
          location : {""}, nickname : {"nick"}]
PermTokens == {B64(m.tok) : m \in mail}

\* signup and every workflow on an account, and the Elevated extractor
NextPerm ==
    \/ \E s \in PermSignups : Signup(s[1], s[2], B64("Passw0rd1"), TRUE)
    \/ \E s \in PermSignins : Signin(s[1], s[2])
    \/ \E r \in AuthRequests, up \in PermUpdates : Update(r, up, TRUE)
    \/ \E r \in AuthRequests : ChangePsw(r, "alice", B64("Passw0rd1"), B64("Passw0rd2"))
    \/ \E u \in UNames : ResetReq(u, TRUE)
    \/ \E k \in PermTokens : ResetPsw(k, B64("Passw0rd1"))
    \/ \E k \in PermTokens : ConfirmEmail(k)
    \/ \E r \in AuthRequests : BlogNew(r)

SpecPerm == InitPerm /\ [][NextPerm]_vars

\* C30: every account that signup created has the permission LIMIT|BASIC, 3,
\* whatever signin, profile update, change of password, reset and confirmation
\* did to it since; so signin and update report it elevated, and the Elevated
\* extractor lets it pass, only when its username is the admin name.
C30_PermissionKept ==
    /\ \A i \in 1 .. Len(users) : users[i].permission = 3
    /\ (resp.op \in {"signin", "update"} /\ resp.ok) =>
          /\ resp.user.permission = 3
          /\ resp.omg <=> resp.uname = admin
    /\ (ext.by = "CheckCan" /\ ext.ok /\ Taken(ext.uname)) => ext.uname = admin

\* bob, who signed up, signed in and changed his profile, asks for a new blog
\* with his session and is refused: alice is the admin
C30_Witness ==
    /\ resp.op = "blog_new"
    /\ ~resp.ok
    /\ ext.by = "CheckCan"
    /\ ~ext.ok
    /\ req.hdr.some
    /\ req.hdr.tok.claims.uname = "bob"
    /\ admin = "alice"
    /\ \E i \in 1 .. Len(users) :
          /\ users[i].uname = "bob"
          /\ users[i].nickname = "nick"
          /\ users[i].last_seen = now

----------------------------------------------------------------------------
(* The username of an account *)

\* C31: no signin, profile update, change of password, reset or confirmation
\* changes the username of an account, and none removes an account: the row
\* with a given id keeps its username.
C31_UsernameKept ==
    [][/\ Len(users') >= Len(users)
       /\ \A i \in 1 .. Len(users) :
             /\ users'[i].id = users[i].id
             /\ users'[i].uname = users[i].uname]_vars

\* alice changed her email and her password and is still named alice
C31_Witness ==
    /\ resp.op = "update"
    /\ resp.ok
    /\ resp.uname = "alice"
    /\ \E i \in 1 .. Len(users) :
          /\ users[i].uname = "alice"
          /\ users[i].email = "b@x.io"
          /\ users[i].psw_hash = [bcrypt |-> "Passw0rd2"]

----------------------------------------------------------------------------
(* The lifetime in the claims of a session token *)

\* C32: in the claims of every session token that was issued, the expiry is
\* the issued-at plus 5 days, 432000 seconds, exactly.
C32_ExactLifetime ==
    \A m \in SessionMail : m.tok.claims.exp - m.tok.claims.iat = 432000

\* the header of the request carries text that decodes, under the server's key,
\* to an action token (exp, uname, email) whose exp has not passed
CsrfAcceptable ==
    /\ req.csrf.some
    /\ req.csrf.tok.fmt = "jwt"
    /\ req.csrf.tok.key = Secret
    /\ {"exp", "uname", "email"} \subseteq DOMAIN req.csrf.tok.claims
    /\ req.csrf.tok.claims.exp >= now

\* C33: the CSRF extractor succeeds exactly when the CsrfToken header carries a
\* validly signed action token whose exp is not before the current time,
\* whatever uname and email the token names; a missing header, a forged or
\* malformed token and an expired one give BadRequest, never success.
C33_CsrfIff ==
    ext.by = "CheckCsrf" =>
        /\ ext.ok <=> CsrfAcceptable
        /\ ~ext.ok => ext.err = "BadRequest"
\* a token issued for a name and email of no account has passed the extractor,
\* and a forged one has been refused with BadRequest
C33_Witness ==
    /\ ext.by = "CheckCsrf" /\ ext.ok
    /\ req.csrf.tok.claims.uname = "n!" /\ req.csrf.tok.claims.email = "bad"
C33_WitnessRefused ==
    /\ ext.by = "CheckCsrf" /\ ~ext.ok /\ ext.err = "BadRequest"
    /\ req.csrf = Some(ForgedAction)

----------------------------------------------------------------------------
(* An account over its life: SpecLife *)

\* the instants the clock of SpecLife visits: at the second a reset token of
\* StartTime has expired and a session token of StartTime has not; at the third
\* every token of StartTime has expired
LifeInstants ==
    {StartTime, StartTime + ResetTtl * 60 + 1, StartTime + SessionTtl + 1}

\* the session tokens the accounts hold: the one the last signin of each
\* returned (last_seen is the instant of that signin)
LifeSessions ==
    {EncodeToken(CheckUserFromUser(users[i]), users[i].last_seen, users[i].last_seen) :
        i \in {j \in 1 .. Len(users) : users[j].last_seen # 0}}
LifeRequests == {NoReq} \cup {WithSession(k) : k \in LifeSessions}

\* alice signs up with an email and bob without; alice changes her email
LifeSignups == {<<"alice", "a@x.io">>, <<"bob", "bad">>}
LifeUpdates ==
    [uname : {"alice"}, avatar : {""}, email : {"b@x.io"}, intro : {""},
     location : {""}, nickname : {""}]
LifePsws == {B64("Passw0rd1"), B64("Passw0rd2")}
LifeSignins == {<<"alice", B64("Passw0rd1")>>, <<"alice", B64("Passw0rd2")>>,
                <<"bob", B64("Passw0rd1")>>}
\* the action tokens a client sends: those mailed, and a forged one
LifeTokens == {B64(m.tok) : m \in mail} \cup {B64(k) : k \in ForgedTokens}

\* time passes between two requests: the last response has been delivered
TickLife ==
    /\ \E t \in LifeInstants : t > now /\ now' = t
    /\ resp' = NoResp
    /\ req' = NoReq
    /\ ext' = NoExt
    /\ UNCHANGED <<users, mail, admin, perm, jobs>>

NextLife ==
    \/ \E s \in LifeSignups : Signup(s[1], s[2], B64("Passw0rd1"), TRUE)
    \/ \E s \in LifeSignins : Signin(s[1], s[2])
    \/ \E r \in LifeRequests, up \in LifeUpdates : Update(r, up, TRUE)
    \/ \E r \in LifeRequests, u \in UNames, o \in LifePsws, n \in LifePsws :
          ChangePsw(r, u, o, n)
    \/ ResetReq("alice", TRUE)
    \/ \E k \in LifeTokens, p \in LifePsws : ResetPsw(k, p)
    \/ \E m \in mail : ConfirmEmail(B64(m.tok))
    \/ \E k \in LifeSessions : ExtractCheckUser(Some(k), None)
    \/ TickLife

SpecLife == Init /\ [][NextLife]_vars

\* the stored password hash of account i differs after the step
HashChanged(i) == users'[i].psw_hash # users[i].psw_hash

\* the step is a change of password, authenticated as account i, naming
\* account i, whose old password verifies against the stored hash
OwnChange(i) ==
    \E r \in LifeRequests, u \in UNames, o \in LifePsws, n \in LifePsws :
        /\ ChangePsw(r, u, o, n)
        /\ AuthenticatedAs(r, users[i].uname)
        /\ u = users[i].uname
        /\ users[i].psw_hash = [bcrypt |-> o.val]

\* the step is a reset phase 2 whose token is signed by the server, has not
\* expired, and names account i and its stored email
OwnReset(i) ==
    \E k \in LifeTokens, p \in LifePsws :
        /\ ResetPsw(k, p)
        /\ k.val.fmt = "jwt" /\ k.val.key = Secret
        /\ k.val.claims.exp >= now
        /\ k.val.claims.uname = users[i].uname
        /\ k.val.claims.email = users[i].email

\* C34: the stored password hash of an account changes only in a step that is
\* a change of password authenticated as that account whose old password
\* verifies, or a reset phase 2 with a signed, unexpired action token that
\* names the account and its current email; signup of another account, signin,
\* profile update, reset phase 1 and confirmation leave it.
C34_PasswordIntegrity ==
    [][\A i \in 1 .. Len(users) : HashChanged(i) => (OwnChange(i) \/ OwnReset(i))]_vars
\* alice's password has been changed by her own request while bob has an
\* account and a session
C34_Witness ==
    /\ resp.op = "change_psw" /\ resp.ok /\ resp.uname = "alice"
    /\ Len(users) = 2 /\ users[2].last_seen # 0
    /\ users[1].psw_hash = [bcrypt |-> "Passw0rd2"]
\* her password has been replaced by a reset after her change
C34_WitnessReset ==
    /\ resp.op = "reset_psw" /\ resp.ok /\ resp.uname = "alice"
    /\ ext.by = "CheckUser" /\ ext.ok /\ ext.uname = "alice"
    /\ users[1].psw_hash = [bcrypt |-> "Passw0rd1"]

----------------------------------------------------------------------------
(* Session tokens and action tokens side by side: SpecKinds *)

\* the tokens a client holds: the sessions of alice and bob, and the action
\* tokens mailed
HeldSessions ==
    {EncodeToken(CheckUserFromUser(users[i]), users[i].last_seen, users[i].last_seen) :
        i \in {1, 2}}
HeldActions == {m.tok : m \in mail}
HeldTokens == HeldSessions \cup HeldActions
KindRequests == {NoReq} \cup {WithSession(k) : k \in HeldSessions}
\* what goes in the authorization header and in the cookie
KindValues == {None} \cup {Some(k) : k \in HeldTokens}

\* both phases of the reset, the update and the confirmation, fed with tokens of
\* either kind, and the four extractors likewise
NextKinds ==
    \/ ResetReq("alice", TRUE)
    \/ \E r \in KindRequests, up \in LifeUpdates : Update(r, up, TRUE)
    \/ \E k \in HeldTokens : ResetPsw(B64(k), B64("Passw0rd2"))
    \/ \E k \in HeldTokens : ConfirmEmail(B64(k))
    \/ \E k \in HeldTokens : ExtractCheckCsrf(Some(k))
    \/ \E h \in KindValues, c \in KindValues : ExtractCheckUser(h, c)
    \/ \E h \in KindValues, c \in KindValues : ExtractCheckCan(h, c)
    \/ \E h \in KindValues, c \in KindValues : ExtractCheckAuth(h, c)

SpecKinds == InitProfile /\ [][NextKinds]_vars

\* a token the server signed with the claims of a session, and one with the
\* claims of an action token
IsSessionToken(tok) ==
    tok.fmt = "jwt" /\ tok.key = Secret /\ DOMAIN tok.claims = ClaimsFields
IsActionToken(tok) ==
    tok.fmt = "jwt" /\ tok.key = Secret /\ DOMAIN tok.claims = TokClaimFields
\* a header or cookie without the action token it may carry
Strip(o) == IF o.some /\ IsActionToken(o.tok) THEN None ELSE o
Stripped(r) == [r EXCEPT !.hdr = Strip(r.hdr), !.cki = Strip(r.cki)]
\* neither the header nor the cookie carries anything but an action token
OnlyActions(r) == Strip(r.hdr) = None /\ Strip(r.cki) = None

\* C35: an action token (reset or confirmation) is invalid to the Strict, the
\* Elevated and the Optional extractor: each answers as if the token were not
\* in the request; and a session token sent as an action token decodes to the
\* sentinel claim and is rejected by reset phase 2, by the confirmation and by
\* the CSRF check.
C35_KindsApart ==
    /\ ext.by = "CheckUser" =>
          /\ ext = CheckUserFromRequest(Stripped(req), now)
          /\ OnlyActions(req) => (~ext.ok /\ ext.err = "Unauthorized")
    /\ ext.by = "CheckCan" =>
          /\ ext = CheckCanFromRequest(Stripped(req), admin, now)
          /\ OnlyActions(req) => (ext.uname = "" /\ ext.permission = 0
                                  /\ ext.ok = (admin = ""))
    /\ ext.by = "CheckAuth" =>
          /\ ext = CheckAuthFromRequest(Stripped(req), now)
          /\ Strip(req.cki) = None => ext.uname = ""
    /\ (resp.op \in {"reset_psw", "confirm"} /\ IsSessionToken(resp.tok)) =>
          (resp.claim = SentinelClaim /\ ~resp.ok)
    /\ (ext.by = "CheckCsrf" /\ req.csrf.some /\ IsSessionToken(req.csrf.tok)) =>
          (~ext.ok /\ ext.err = "BadRequest")
\* alice's unexpired reset token has been refused as a session, and her
\* unexpired session has then been refused by reset phase 2
C35_Witness ==
    /\ ext.by = "CheckUser" /\ ~ext.ok
    /\ req.hdr.some /\ IsActionToken(req.hdr.tok) /\ req.hdr.tok.claims.exp > now
    /\ "reset" \in Purposes(req.hdr.tok)
    /\ resp.op = "reset_psw" /\ ~resp.ok /\ IsSessionToken(resp.tok)
    /\ resp.tok.claims.uname = "alice" /\ resp.tok.claims.exp > now
\* her session has been refused by the CSRF check
C35_WitnessCsrf ==
    /\ ext.by = "CheckCsrf" /\ ~ext.ok /\ req.csrf.some /\ IsSessionToken(req.csrf.tok)

\* C36: a session token that signin or the profile update issued is accepted
\* by the Strict extractor at every instant up to its own exp, whatever change
\* of password, reset, profile update or confirmation the account has seen
\* since, and is refused after it: the answer depends on the token and the
\* clock alone.
C36_NoRevocation ==
    (ext.by = "CheckUser" /\ req.hdr.some /\ IsSessionToken(req.hdr.tok)) =>
        /\ ext.ok <=> req.hdr.tok.claims.exp >= now
        /\ ext.ok => /\ ext.uname = req.hdr.tok.claims.uname
                     /\ ext.id = req.hdr.tok.claims.uid
                     /\ ext.permission = req.hdr.tok.claims.permission
\* alice's session of StartTime is accepted later on, after her password and
\* her email have been changed
C36_Witness ==
    /\ ext.by = "CheckUser" /\ ext.ok /\ ext.uname = "alice"
    /\ resp.op = "" /\ req.hdr.some /\ req.hdr.tok.claims.iat = StartTime
    /\ now > StartTime
    /\ users[1].psw_hash = [bcrypt |-> "Passw0rd2"] /\ users[1].email = "b@x.io"

----------------------------------------------------------------------------
(* One reset token, many submissions: SpecAgain *)

\* the instants the clock of SpecAgain visits: a reset token of StartTime is
\* valid at the first three and expired at the fourth
AgainInstants ==
    {StartTime, StartTime + 60, StartTime + ResetTtl * 60, StartTime + ResetTtl * 60 + 1}
AgainPsws == {B64("Passw0rd1"), B64("Passw0rd2"), B64("short")}

\* time passes between two requests: the last response has been delivered
TickAgain ==
    /\ \E t \in AgainInstants : t > now /\ now' = t
    /\ resp' = NoResp
    /\ req' = NoReq
    /\ ext' = NoExt
    /\ UNCHANGED <<users, mail, admin, perm, jobs>>

\* alice asks for reset tokens and submits them; she signs in with the second
\* password only, and she may change her email
NextAgain ==
    \/ ResetReq("alice", TRUE)
    \/ \E m \in mail, p \in AgainPsws : ResetPsw(B64(m.tok), p)
    \/ Signin("alice", B64("Passw0rd2"))
    \/ \E r \in KindRequests, up \in LifeUpdates : Update(r, up, TRUE)
    \/ TickAgain

SpecAgain == InitProfile /\ [][NextAgain]_vars

\* the accounts reset token k stands for at this instant: it has not expired,
\* it names the account and the email the account has now
Resettable(k) ==
    {i \in 1 .. Len(users) : /\ k.claims.exp >= now
                             /\ users[i].uname = k.claims.uname
                             /\ users[i].email = k.claims.email}

\* C37: a reset token is not consumed: every submission of a reset token with
\* a well-formed new password, made before the token expires while the
\* account's stored email equals the token's, succeeds and stores the new
\* password, however often that token or another one of the account has been
\* used before; and a reset leaves every token as it was.
C37_TokenReusable ==
    [][\A m \in mail, p \in AgainPsws :
          (ResetPsw(B64(m.tok), p) /\ m.purpose = "reset" /\ ReTestPsw(p.val))
          => /\ mail' = mail
             /\ \A i \in Resettable(m.tok) :
                   /\ resp'.ok /\ resp'.status = 200
                   /\ users'[i].psw_hash = HashPassword(p.val)]_vars
\* the one reset token ever issued has reset alice's password to the second
\* password (she then signed in with it, a minute after StartTime) and has now
\* reset it to the first
C37_Witness ==
    /\ resp.op = "reset_psw" /\ resp.ok /\ resp.uname = "alice"
    /\ mail = {m \in mail : m.purpose = "reset" /\ m.tok = resp.tok}
    /\ Cardinality(mail) = 1
    /\ users[1].last_seen = StartTime + 60
    /\ users[1].psw_hash = [bcrypt |-> "Passw0rd1"]

\* the stored profile fields of the account named u differ after the step
ProfileChanged(u) ==
    \E i \in 1 .. Len(users) :
        /\ users[i].uname = u
        /\ \/ users'[i].avatar # users[i].avatar
           \/ users'[i].intro # users[i].intro
           \/ users'[i].location # users[i].location
           \/ users'[i].nickname # users[i].nickname
           \/ users'[i].email # users[i].email

\* C38: every profile update that returns success has changed at least one of
\* avatar, intro, location, nickname and email of the stored account; an update
\* that differs from the stored account in a malformed email only does not
\* succeed.
C38_SuccessMeansChange ==
    [][\A r \in ProfileRequests, up \in ProfileInputs :
          (Update(r, up, TRUE) /\ resp'.ok) => ProfileChanged(Trim(up.uname))]_vars

\* the confirmation emails dispatched for the signup whose insert worker w holds
SignupMailOf(w) ==
    {m \in mail : /\ m.purpose = "confirm"
                  /\ m.uname = jobs[w].row.uname
                  /\ jobs[w].row.email # ""
                  /\ m.to = jobs[w].row.email}
\* an account with username u and email e is stored after the step
PersistedNext(u, e) ==
    \E i \in 1 .. Len(users') : users'[i].uname = u /\ users'[i].email = e

\* C39: at signup a confirmation email for (username, email) is dispatched only
\* for an account that ends up persisted with that username and email: when
\* the insert of a signup has run, every confirmation email dispatched for it
\* names a stored account, so a refused insert has sent none; and a signup
\* whose dispatch fails hands no insert to storage.
C39_DispatchThenPersist ==
    [][/\ \A w \in Workers :
             RegWrite(w) => \A m \in SignupMailOf(w) : PersistedNext(m.uname, m.to)
       /\ \A w \in Workers, u \in ConcNames, e \in Emails :
             (RegLookup(w, u, e, B64("Passw0rd1"), FALSE) /\ WhereEmail(users, e) = {})
             => (jobs' = jobs /\ mail' = mail)]_vars

====
